---- MODULE Spec2Model ----
(***************************************************************************)
(* Document ingestion pipeline of UrbanClimate-Expert                      *)
(* (backend/app/api/v1/documents.py, backend/app/db/models.py,             *)
(* backend/app/services/parser_service.py).                                *)
(*                                                                         *)
(* Request handlers and background pipeline runs are asyncio coroutines:   *)
(* every action below is the code between two suspension points (await)    *)
(* of one coroutine, so the interleavings of the model are the             *)
(* interleavings the event loop can produce.                               *)
(***************************************************************************)
EXTENDS Integers, Sequences, FiniteSets, Bags, TLC

(***************************************************************************)
(* Bounds of the model.                                                    *)
(***************************************************************************)
MaxDocs == 2        \* ids the auto-increment key hands out
MaxAdminOps == 1    \* rename and delete requests served
MaxInFlight == 2    \* units of work in flight at once: an upload request
                    \* past its lookup, or the background task it scheduled
MaxQueryTime == 1   \* seconds a status query of the poll loop may take
MaxExtra == 30      \* exception messages are up to this much longer than the
                    \* limit of the error_message column
MaxTextLen == 5     \* tokens in a text given to a text-cleaning function
MaxSanitizeLen == 4 \* tokens in a text given to the sanitizer
MaxBatch == 2       \* texts in one batch given to the embedding function
MaxWarnings == 2    \* degradation warnings counted for one document

(***************************************************************************)
(* Program constants.                                                      *)
(***************************************************************************)
max_file_size_mb == 100
ErrorMessageLimit == 1000
MinTextLength == 100
\* settings.mineru_max_retries, mineru_retry_delay, mineru_poll_interval,
\* mineru_max_poll_time
max_retries == 3
retry_delay == 2
poll_interval == 5
max_poll_time == 600

DocId == 1..MaxDocs

PENDING == "pending"
PROCESSING == "processing"
COMPLETED == "completed"
FAILED == "failed"
DocumentStatus == {PENDING, PROCESSING, COMPLETED, FAILED}

\* None / SQL NULL; every nullable value of the model is a sequence
Null == <<"NULL">>
NoDoc == [absent |-> TRUE]
NoFile == [missing |-> TRUE]

(***************************************************************************)
(* Inputs.  A content is the byte string of an uploaded file, kept as its  *)
(* leading bytes (head), the rest (body) and its length in bytes.          *)
(***************************************************************************)
PdfMagic == "%PDF"
pdfBytes == [head |-> PdfMagic, body |-> "one", size |-> 5120]
junkBytes == [head |-> "Not ", body |-> "a PDF", size |-> 9]
emptyBytes == [head |-> "", body |-> "", size |-> 0]
hugeBytes == [head |-> PdfMagic, body |-> "x", size |-> max_file_size_mb * 1024 * 1024 + 1000]
Contents == {pdfBytes, junkBytes, emptyBytes, hugeBytes}
\* the (filename, bytes) pairs a client submits
Files == {<<"test.pdf", pdfBytes>>, <<"test.pdf", junkBytes>>, <<"test.pdf", emptyBytes>>,
          <<"test.pdf", hugeBytes>>, <<"test.txt", junkBytes>>}
RenameNames == {"paper"}

\* exception messages, as sequences of characters
MsgFileMissing == <<"n", "o", "f", "i", "l", "e">>
MsgBadHeader == <<"b", "a", "d", "h", "d", "r">>
MsgParser == <<"m", "i", "n", "e", "r", "u">>
MsgTooShort == <<"s", "h", "o", "r", "t">>
MsgStore == <<"d", "b">>
MsgIndex == <<"r", "a", "g">>

\* lengths of the cleaned text an extraction can return
TextLengths == {0, 50, 99, 100, 150}

Min(a, b) == IF a < b THEN a ELSE b

TakeOneMore(s, n) == SubSeq(s, 1, Min(Len(s), n + 1))

\* s[:n]
Take(s, n) == SubSeq(s, 1, Min(Len(s), n))

\* hashlib.sha256(content).hexdigest(): a digest determined by the bytes
_calculate_sha256(content) == <<"sha256", content.head, content.body, content.size>>

\* upload_dir / f"{sha256}.pdf"
StoragePath(sha256) == <<"uploads", sha256, ".pdf">>

\* name.lower().endswith(".pdf")
EndsWithPdf(name) == name \in {"test.pdf", "paper.pdf"}

AppendPdf(name) == IF name = "paper" THEN "paper.pdf" ELSE name

VARIABLES
    docs,       \* the documents table: id -> row or NoDoc
    nextId,     \* the auto-increment counter of documents.id
    storage,    \* the upload directory: path -> bytes or NoFile
    parsed,     \* ids with a file in parsed_texts/
    uploads,    \* upload_document requests past their lookup (a bag)
    resp,       \* the HTTP response sent by the step just taken, if any
    runs,       \* background tasks _process_document_background (a bag)
    origin,     \* history: filepath and sha256 of each row at creation
    adminOps,   \* history: rename and delete requests served so far
    io,         \* what the collaborator called by the step just taken did
    call,       \* one call of MinerUParserService.parse_pdf, step by step
    embed,      \* _nan_warning_logged_docs and the embedding calls served
    cleaning    \* one application of a text-cleaning function

vars == <<docs, nextId, storage, parsed, uploads, resp, runs, origin, adminOps,
          io, call, embed, cleaning>>

\* the state of the services the document pipeline calls into
libVars == <<call, embed, cleaning>>

Paths == {StoragePath(_calculate_sha256(c)) : c \in Contents}

NoResp == [code |-> 0, id |-> 0, sha256 |-> Null]

\* no collaborator returned in this step; no parse_pdf call is being followed
NoIO == [op |-> "none"]
NoCall == [pc |-> "none"]
NoEmbed == [pc |-> "none"]
NoText == [pc |-> "none"]

\* coroutines are kept in bags: two of them in the same position with the
\* same locals are two elements
Put(bag, e) == bag (+) SetToBag({e})
Drop(bag, e) == bag (-) SetToBag({e})
Move(bag, e, f) == Put(Drop(bag, e), f)
InFlight == BagCardinality(uploads) + BagCardinality(runs)

Init ==
    /\ docs = [i \in DocId |-> NoDoc]
    /\ nextId = 1
    /\ storage = [p \in Paths |-> NoFile]
    /\ parsed = {}
    /\ uploads = EmptyBag
    /\ resp = NoResp
    /\ runs = EmptyBag
    /\ origin = [i \in DocId |-> NoDoc]
    /\ adminOps = 0
    /\ io = NoIO
    /\ call = NoCall
    /\ embed = NoEmbed
    /\ cleaning = NoText

(***************************************************************************)
(* The documents table (db/models.py).                                     *)
(***************************************************************************)
Rows(ds) == {i \in DocId : ds[i] # NoDoc}

\* select(Document).where(Document.sha256 == sha256): the ids that match
SelectBySha(ds, sha256) == {i \in Rows(ds) : ds[i].sha256 = sha256}

UniqueOff(ds, sha256, filepath) == FALSE

\* unique=True on documents.sha256 and documents.filepath: an INSERT that
\* repeats either value raises IntegrityError at commit
UniqueViolation(ds, sha256, filepath) ==
    \E i \in Rows(ds) : ds[i].sha256 = sha256 \/ ds[i].filepath = filepath

\* Document(filename=..., filepath=..., sha256=..., filesize=..., status=PENDING)
NewDocument(filename, filepath, sha256, filesize) ==
    [filename |-> filename, filepath |-> filepath, sha256 |-> sha256,
     filesize |-> filesize, status |-> PENDING, error_message |-> Null,
     summary |-> Null]

\* the attributes of a row as loaded into a request's session
Loaded(ds, i) == [id |-> i, status |-> ds[i].status, filepath |-> ds[i].filepath]

(***************************************************************************)
(* upload_document.                                                        *)
(***************************************************************************)
ValidationNoEmptyCheck(name, content) ==
    IF name = "" \/ ~EndsWithPdf(name) THEN 400
    ELSE IF content.size > max_file_size_mb * 1024 * 1024 THEN 413
    ELSE 0

\* steps 1-2: the status code of the HTTPException raised, 0 when the file
\* passes
UploadValidation(name, content) ==
    IF name = "" \/ ~EndsWithPdf(name) THEN 400
    ELSE IF content.size > max_file_size_mb * 1024 * 1024 THEN 413
    ELSE IF content.size = 0 THEN 400
    ELSE 0

ReprocessUnlessCompleted(existing) == existing.status # COMPLETED

\* if existing_doc.status == DocumentStatus.FAILED
ShouldReprocess(existing) == existing.status = FAILED

ResetKeepingError(doc) == [doc EXCEPT !.status = PENDING]

\* existing_doc.status = PENDING; existing_doc.error_message = None
ResetForRetry(doc) == [doc EXCEPT !.status = PENDING, !.error_message = Null]

\* a task added by background_tasks.add_task(_process_document_background, id, path);
\* err is the exception `e` of the except clause, raised is a history field:
\* the message of the exception raised inside the try block
ScheduledRun(doc_id, filepath) ==
    [pc |-> "scheduled", doc_id |-> doc_id, filepath |-> filepath,
     summary |-> Null, err |-> Null, raised |-> Null, db |-> "closed"]

\* the response: an HTTPException (id 0) or a DocumentUploadResponse
Response(code, id, sha256) == [code |-> code, id |-> id, sha256 |-> sha256]

\* ids that requests in flight may still take
Reserved == BagCardinality([up \in {x \in BagToSet(uploads) : x.pc \in {"new", "written"}}
                               |-> uploads[up]])

\* a request arrives; steps 1-4: validate, hash, SELECT by sha256.  A row
\* that is found and is not FAILED is returned as it is.
UploadLookup ==
    /\ InFlight < MaxInFlight
    /\ \E file \in Files :
          LET name == file[1]
              content == file[2]
              code == UploadValidation(name, content)
              sha256 == _calculate_sha256(content)
              found == SelectBySha(docs, sha256)
              existing == IF found = {} THEN NoDoc
                          ELSE Loaded(docs, CHOOSE i \in found : TRUE)
          IN  IF code # 0
              THEN resp' = Response(code, 0, Null) /\ uploads' = uploads
              ELSE \E fault \in BOOLEAN :
                     IF fault
                     THEN resp' = Response(500, 0, Null) /\ uploads' = uploads
                     ELSE IF existing # NoDoc /\ ~ShouldReprocess(existing)
                     THEN resp' = Response(202, existing.id, sha256) /\ uploads' = uploads
                     ELSE /\ existing = NoDoc => nextId + Reserved <= MaxDocs
                          /\ uploads' = Put(uploads,
                                 [pc |-> IF existing = NoDoc THEN "new" ELSE "retry",
                                  name |-> name, content |-> content,
                                  sha256 |-> sha256, existing |-> existing])
                          /\ resp' = NoResp
    /\ io' = NoIO
    /\ UNCHANGED <<docs, nextId, storage, parsed, runs, origin, adminOps, libVars>>

\* existing_doc found with status FAILED: reset, commit, refresh, add_task
UploadRetryFailed(up) ==
    /\ up.pc = "retry"
    /\ uploads' = Drop(uploads, up)
    /\ \/ /\ docs[up.existing.id] # NoDoc
          /\ docs' = [docs EXCEPT ![up.existing.id] = ResetForRetry(@)]
          /\ runs' = Put(runs, ScheduledRun(up.existing.id, up.existing.filepath))
          /\ resp' = Response(202, up.existing.id, up.sha256)
       \/ \* the commit raises: the row is gone (StaleDataError) or the
          \* store fails
          /\ resp' = Response(500, 0, Null)
          /\ UNCHANGED <<docs, runs>>
    /\ io' = NoIO
    /\ UNCHANGED <<nextId, storage, parsed, origin, adminOps, libVars>>

WriteNothing(files, sha256, content) == files

\* filepath = upload_dir / f"{sha256}.pdf"; filepath.write_bytes(content)
WriteBytes(files, sha256, content) ==
    [files EXCEPT ![StoragePath(sha256)] = content]

\* steps 5-6: mkdir, filepath.write_bytes(content)
UploadSaveFile(up) ==
    /\ up.pc = "new"
    /\ storage' = WriteBytes(storage, up.sha256, up.content)
    /\ uploads' = Move(uploads, up, [up EXCEPT !.pc = "written"])
    /\ resp' = NoResp
    /\ io' = NoIO
    /\ UNCHANGED <<docs, nextId, parsed, runs, origin, adminOps, libVars>>

\* steps 7-8: db.add(doc), commit, refresh, add_task
UploadCreate(up) ==
    /\ up.pc = "written"
    /\ uploads' = Drop(uploads, up)
    /\ LET path == StoragePath(up.sha256)
       IN  \/ /\ ~UniqueViolation(docs, up.sha256, path)
              /\ docs' = [docs EXCEPT ![nextId] =
                             NewDocument(up.name, path, up.sha256, up.content.size)]
              /\ origin' = [origin EXCEPT ![nextId] =
                               [filepath |-> path, sha256 |-> up.sha256]]
              /\ nextId' = nextId + 1
              /\ runs' = Put(runs, ScheduledRun(nextId, path))
              /\ resp' = Response(202, nextId, up.sha256)
           \/ \* the commit raises: IntegrityError on a repeated sha256 or
              \* filepath, or the store fails
              /\ resp' = Response(500, 0, Null)
              /\ UNCHANGED <<docs, nextId, runs, origin>>
    /\ io' = NoIO
    /\ UNCHANGED <<storage, parsed, adminOps, libVars>>

(***************************************************************************)
(* The pipeline run: _process_document_background(doc_id, filepath).       *)
(***************************************************************************)
_update_document_status_missing_ok(ds, doc_id, status, error_message, fault) ==
    IF fault THEN [docs |-> ds, ok |-> FALSE]
    ELSE IF ds[doc_id] = NoDoc THEN [docs |-> ds, ok |-> TRUE]
    ELSE [docs |-> [ds EXCEPT ![doc_id] =
                      [@ EXCEPT !.status = status,
                                !.error_message =
                                    IF error_message # Null
                                    THEN SubSeq(error_message, 1,
                                                Min(Len(error_message), ErrorMessageLimit))
                                    ELSE @]],
          ok |-> TRUE]

\* _update_document_status: one session, SELECT by id, set the status (and
\* the message when one is given), commit.  Any exception returns False.
_update_document_status(ds, doc_id, status, error_message, fault) ==
    IF fault \/ ds[doc_id] = NoDoc
    THEN [docs |-> ds, ok |-> FALSE]
    ELSE [docs |-> [ds EXCEPT ![doc_id] =
                      [@ EXCEPT !.status = status,
                                !.error_message =
                                    IF error_message # Null
                                    THEN Take(error_message, ErrorMessageLimit)
                                    ELSE @]],
          ok |-> TRUE]

_update_document_summary_unkeyed(ds, doc_id, summary, fault) ==
    IF fault \/ ds[doc_id] = NoDoc
    THEN ds
    ELSE [i \in DocId |-> IF ds[i] = NoDoc THEN ds[i]
                          ELSE [ds[i] EXCEPT !.summary = summary]]

\* _update_document_summary: one session, SELECT by id, set summary, commit
_update_document_summary(ds, doc_id, summary, fault) ==
    IF fault \/ ds[doc_id] = NoDoc
    THEN ds
    ELSE [ds EXCEPT ![doc_id] = [@ EXCEPT !.summary = summary]]

validate_pdf_no_header(files, path) ==
    IF files[path] = NoFile THEN MsgFileMissing
    ELSE IF path[3] # ".pdf" THEN MsgBadHeader
    ELSE Null

\* validate_pdf: Null when the file is valid, else the error message
validate_pdf(files, path) ==
    IF files[path] = NoFile THEN MsgFileMissing
    ELSE IF path[3] # ".pdf" THEN MsgBadHeader
    ELSE IF files[path].head # PdfMagic THEN MsgBadHeader
    ELSE Null

TextTooShortInclusive(n) == n = 0 \/ n <= MinTextLength

\* if not text or len(text.strip()) < 100
TextTooShort(n) == n = 0 \/ n < MinTextLength

\* _generate_summary: the stripped answer of the LLM; any exception is
\* logged and "" is returned
_generate_summary(llm_raises) == IF llm_raises THEN <<>> ELSE <<"s", "u", "m">>

SummaryBranchFatal(run, summary) ==
    IF summary # <<>>
    THEN [run EXCEPT !.pc = "savesummary", !.summary = summary]
    ELSE [run EXCEPT !.pc = "failing", !.err = <<"l", "l", "m">>,
                     !.raised = <<"l", "l", "m">>]

\* if summary: await _update_document_summary(...) else: only a warning
SummaryBranch(run, summary) ==
    IF summary # <<>>
    THEN [run EXCEPT !.pc = "savesummary", !.summary = summary]
    ELSE [run EXCEPT !.pc = "insert"]

insert_document_trusting_ainsert(ainsert_raises, failed_doc) ==
    IF ainsert_raises THEN MsgIndex ELSE Null

\* LightRAGService.insert_document: Null when it returns, else the message
\* of the exception it raises: the one of rag.ainsert, or the RuntimeError
\* for a document that LightRAG recorded as failed without raising
insert_document(ainsert_raises, failed_doc) ==
    IF ainsert_raises THEN MsgIndex
    ELSE IF failed_doc THEN MsgIndex
    ELSE Null

Swallow(run, msg) == [run EXCEPT !.pc = "complete", !.raised = msg]

\* an exception raised inside the try block reaches `except Exception as e`
Raise(run, msg) == [run EXCEPT !.pc = "failing", !.err = msg, !.raised = msg]

\* 1. mark PROCESSING; a failed update ends the task
RunMarkProcessing(run) ==
    /\ run.pc = "scheduled"
    /\ \E fault \in BOOLEAN :
          LET res == _update_document_status(docs, run.doc_id, PROCESSING, Null, fault)
          IN  /\ docs' = res.docs
              /\ runs' = IF res.ok THEN Move(runs, run, [run EXCEPT !.pc = "validate"])
                         ELSE Drop(runs, run)
    /\ resp' = NoResp
    /\ io' = NoIO
    /\ UNCHANGED <<nextId, storage, parsed, uploads, origin, adminOps, libVars>>

\* 2. validate_pdf, then parse_pdf up to its first request
RunValidate(run) ==
    /\ run.pc = "validate"
    /\ LET msg == validate_pdf(storage, run.filepath)
       IN  runs' = Move(runs, run, IF msg # Null THEN Raise(run, msg)
                                   ELSE [run EXCEPT !.pc = "extracting"])
    /\ resp' = NoResp
    /\ io' = NoIO
    /\ UNCHANGED <<docs, nextId, storage, parsed, uploads, origin, adminOps, libVars>>

GateOpen(run, n) == [run EXCEPT !.pc = "meta"]

\* if not text or len(text.strip()) < 100: raise ValueError(...)
Gate(run, n) ==
    IF TextTooShort(n) THEN Raise(run, MsgTooShort) ELSE [run EXCEPT !.pc = "meta"]

\* parse_pdf returns or raises; length gate; _save_parsed_text
RunExtract(run) ==
    /\ run.pc = "extracting"
    /\ \/ /\ runs' = Move(runs, run, Raise(run, MsgParser))
          /\ parsed' = parsed
          /\ io' = [op |-> "parse_pdf", raised |-> TRUE, text |-> 0]
       \/ \E n \in TextLengths :
             /\ io' = [op |-> "parse_pdf", raised |-> FALSE, text |-> n]
             /\ runs' = Move(runs, run, Gate(run, n))
             /\ parsed' = IF Gate(run, n).pc = "meta" THEN parsed \cup {run.doc_id}
                          ELSE parsed
    /\ resp' = NoResp
    /\ UNCHANGED <<docs, nextId, storage, uploads, origin, adminOps, libVars>>

\* leaving `async with get_session_context() as db`, by falling off the end
\* of the block, by `return` or by an exception, closes the session
ExitSessionLeak(run) == run
ExitSession(run) == [run EXCEPT !.db = "closed"]

\* 3. async with get_session_context() as db: the SELECT is sent
RunOpenSession(run) ==
    /\ run.pc = "meta"
    /\ runs' = Move(runs, run, [run EXCEPT !.pc = "select", !.db = "open"])
    /\ resp' = NoResp
    /\ io' = NoIO
    /\ UNCHANGED <<docs, nextId, storage, parsed, uploads, origin, adminOps, libVars>>

RecordAssumed(ds, doc_id) == TRUE

\* doc = result.scalar_one_or_none(); if not doc: return
RecordFound(ds, doc_id) == ds[doc_id] # NoDoc

\* the SELECT returns: the row gives the metadata; a missing row ends the task
RunReadMeta(run) ==
    /\ run.pc = "select"
    /\ \E fault \in BOOLEAN :
          runs' = IF fault THEN Move(runs, run, ExitSession(Raise(run, MsgStore)))
                  ELSE IF ~RecordFound(docs, run.doc_id) THEN Drop(runs, run)
                  ELSE Move(runs, run, ExitSession([run EXCEPT !.pc = "summarize"]))
    /\ resp' = NoResp
    /\ io' = NoIO
    /\ UNCHANGED <<docs, nextId, storage, parsed, uploads, origin, adminOps, libVars>>

\* 4. _generate_summary: the summary, or "" when the LLM call fails
RunGenerateSummary(run) ==
    /\ run.pc = "summarize"
    /\ \E llm_raises \in BOOLEAN :
          /\ runs' = Move(runs, run, SummaryBranch(run, _generate_summary(llm_raises)))
          /\ io' = [op |-> "_generate_summary", raised |-> llm_raises]
    /\ resp' = NoResp
    /\ UNCHANGED <<docs, nextId, storage, parsed, uploads, origin, adminOps, libVars>>

SkipIndexing(run) == [run EXCEPT !.pc = "complete", !.summary = Null]

\* the statement after the summary block is the call of rag.insert_document
ToIndexing(run) == [run EXCEPT !.pc = "insert", !.summary = Null]

\* if summary: await _update_document_summary(doc_id, summary)
RunUpdateSummary(run) ==
    /\ run.pc = "savesummary"
    /\ \E fault \in BOOLEAN :
          docs' = _update_document_summary(docs, run.doc_id, run.summary, fault)
    /\ runs' = Move(runs, run, ToIndexing(run))
    /\ resp' = NoResp
    /\ io' = NoIO
    /\ UNCHANGED <<nextId, storage, parsed, uploads, origin, adminOps, libVars>>

\* 5. rag.insert_document returns or raises
RunInsert(run) ==
    /\ run.pc = "insert"
    /\ \E ainsert_raises, failed_doc \in BOOLEAN :
          LET msg == insert_document(ainsert_raises, failed_doc)
          IN  /\ runs' = Move(runs, run, IF msg = Null THEN [run EXCEPT !.pc = "complete"]
                                         ELSE Raise(run, msg))
              /\ io' = [op |-> "insert_document", raised |-> ainsert_raises,
                        failed_doc |-> failed_doc]
    /\ resp' = NoResp
    /\ UNCHANGED <<docs, nextId, storage, parsed, uploads, origin, adminOps, libVars>>

TaskRaisesAfterCommit(rs, run, res) ==
    IF res.ok /\ run.pc = "complete" THEN Move(rs, run, Raise(run, MsgStore))
    ELSE Drop(rs, run)

\* after a terminal status write, committed or not, the task only logs and
\* returns: _update_document_status raises nothing and its result is unused
TaskReturns(rs, run, res) == Drop(rs, run)

\* 6. mark COMPLETED; the result of the update is not looked at
RunMarkCompleted(run) ==
    /\ run.pc = "complete"
    /\ \E fault \in BOOLEAN :
          LET res == _update_document_status(docs, run.doc_id, COMPLETED, Null, fault)
          IN  /\ docs' = res.docs
              /\ runs' = TaskReturns(runs, run, res)
    /\ resp' = NoResp
    /\ io' = NoIO
    /\ UNCHANGED <<nextId, storage, parsed, uploads, origin, adminOps, libVars>>

\* 7. except Exception as e: mark FAILED with str(e)
RunMarkFailed(run) ==
    /\ run.pc = "failing"
    /\ \E fault \in BOOLEAN :
          LET res == _update_document_status(docs, run.doc_id, FAILED, run.err, fault)
          IN  /\ docs' = res.docs
              /\ runs' = TaskReturns(runs, run, res)
    /\ resp' = NoResp
    /\ io' = NoIO
    /\ UNCHANGED <<nextId, storage, parsed, uploads, origin, adminOps, libVars>>

(***************************************************************************)
(* rename_document and delete_document.                                    *)
(***************************************************************************)
RenamedWithPath(doc, filename) ==
    [doc EXCEPT !.filename = IF EndsWithPdf(filename) THEN filename ELSE AppendPdf(filename),
                !.filepath = StoragePath(<<filename>>)]

\* new_filename gets ".pdf" appended when it lacks it; doc.filename = new_filename
Renamed(doc, filename) ==
    [doc EXCEPT !.filename = IF EndsWithPdf(filename) THEN filename ELSE AppendPdf(filename)]

rename_document(i) ==
    /\ adminOps < MaxAdminOps
    /\ adminOps' = adminOps + 1
    /\ docs[i] # NoDoc
    /\ \E filename \in RenameNames :
          docs' = [docs EXCEPT ![i] = Renamed(@, filename)]
    /\ resp' = NoResp
    /\ io' = NoIO
    /\ UNCHANGED <<nextId, storage, parsed, uploads, runs, origin, libVars>>

\* unlink the stored file and the parsed text, delete the row
delete_document(i) ==
    /\ adminOps < MaxAdminOps
    /\ adminOps' = adminOps + 1
    /\ docs[i] # NoDoc
    /\ storage' = [storage EXCEPT ![docs[i].filepath] = NoFile]
    /\ parsed' = parsed \ {i}
    /\ docs' = [docs EXCEPT ![i] = NoDoc]
    /\ resp' = NoResp
    /\ io' = NoIO
    /\ UNCHANGED <<nextId, uploads, runs, origin, libVars>>

(***************************************************************************)
(* MinerUParserService.parse_pdf (services/parser_service.py): one call,   *)
(* followed from await to await.  `call` holds the locals of the call:     *)
(* the attempt of the for loop, last_error, and while polling the seconds  *)
(* since start_time.                                                       *)
(***************************************************************************)
pipelineVars == <<docs, nextId, storage, parsed, uploads, resp, runs, origin,
                  adminOps, embed, cleaning>>

\* an exception: its class, its status_code (0 for None) and its message
Exc(type, status_code, message) ==
    [type |-> type, status_code |-> status_code, message |-> message]
MinerUAPIError(message, status_code) == Exc("MinerUAPIError", status_code, message)
TimeoutException == Exc("TimeoutException", 0, <<"timeout">>)
ConnectError == Exc("ConnectError", 0, <<"connect">>)
NoError == Exc("None", 0, <<>>)

\* what an HTTP request can do: raise one of these, or answer with a status
TransportErrors == {TimeoutException, ConnectError}
HttpStatus == {200, 400, 500}

\* data.extract_result[0].state as the service reports it; "" stands for an
\* empty extract_result, "mystery" for a state the client does not know
NonTerminalStates == {"pending", "running", "waiting-file", "converting"}
JobStates == NonTerminalStates \cup {"done", "failed", "mystery", ""}

QueryTimes == 0..MaxQueryTime

IsClientErrorAbove400(status_code) == status_code # 0 /\ 400 < status_code /\ status_code < 500

\* e.status_code and 400 <= e.status_code < 500
IsClientError(status_code) == status_code # 0 /\ 400 <= status_code /\ status_code < 500

InRangeOneMore(attempt) == attempt <= max_retries + 1

\* for attempt in range(1, self.max_retries + 1)
InRange(attempt) == attempt <= max_retries

\* if attempt < self.max_retries: await asyncio.sleep(...)
SleepBeforeRetry(attempt) == attempt < max_retries

NeverExpired(elapsed) == FALSE

\* if elapsed > self.max_poll_time
PollExpired(elapsed) == elapsed > max_poll_time

\* the call ends: parse_pdf returns `out` or raises it
Returned(c, text) == [c EXCEPT !.pc = "returned", !.out = text, !.elapsed = 0]
Raised(c, e) == [c EXCEPT !.pc = "raised", !.out = e, !.elapsed = 0]

\* the for loop moves on: the next attempt, or past the loop to the final raise
NextAttempt(c) ==
    IF InRange(c.attempt + 1)
    THEN [c EXCEPT !.pc = "apply", !.attempt = @ + 1]
    ELSE Raised(c, MinerUAPIError(<<"exhausted">>, 0))

\* the two except clauses of parse_pdf, and no clause for anything else
Handle(c, e) ==
    LET c1 == [c EXCEPT !.last_error = e, !.elapsed = 0]
        retry == IF SleepBeforeRetry(c.attempt) THEN [c1 EXCEPT !.pc = "backoff"]
                 ELSE NextAttempt(c1)
    IN  IF e \in TransportErrors THEN retry
        ELSE IF e.type = "MinerUAPIError"
        THEN IF IsClientError(e.status_code) THEN Raised(c1, e) ELSE retry
        ELSE Raised(c, e)

ParseInit ==
    /\ docs = [i \in DocId |-> NoDoc]
    /\ nextId = 1
    /\ storage = [p \in Paths |-> NoFile]
    /\ parsed = {}
    /\ uploads = EmptyBag
    /\ resp = NoResp
    /\ runs = EmptyBag
    /\ origin = [i \in DocId |-> NoDoc]
    /\ adminOps = 0
    /\ io = NoIO
    /\ call = [pc |-> "start", attempt |-> 0, elapsed |-> 0, waited |-> 0,
               last_error |-> NoError, out |-> Null]
    /\ embed = NoEmbed
    /\ cleaning = NoText

\* if not pdf_path.exists(): raise ValueError; else enter the loop
ParseStart ==
    /\ call.pc = "start"
    /\ \E exists \in BOOLEAN :
          call' = IF exists THEN NextAttempt(call)
                  ELSE Raised(call, Exc("ValueError", 0, MsgFileMissing))
    /\ io' = NoIO
    /\ UNCHANGED pipelineVars

\* 1. _apply_upload_url: POST /file-urls/batch
ApplyUploadUrl ==
    /\ call.pc = "apply"
    /\ \/ \E e \in TransportErrors : call' = Handle(call, e)
       \/ \E status \in HttpStatus \ {200} :
             call' = Handle(call, MinerUAPIError(<<"apply">>, status))
       \/ \* 200 with code != 0, or without batch_id / file_urls
          call' = Handle(call, MinerUAPIError(<<"apply">>, 0))
       \/ call' = [call EXCEPT !.pc = "upload"]
    /\ io' = NoIO
    /\ UNCHANGED pipelineVars

\* 2. _upload_file: read the file, PUT it; then _poll_task_result begins and
\* takes start_time
UploadFile ==
    /\ call.pc = "upload"
    /\ \/ call' = Handle(call, Exc("FileNotFoundError", 0, MsgFileMissing))
       \/ \E e \in TransportErrors : call' = Handle(call, e)
       \/ \E status \in HttpStatus \ {200} :
             call' = Handle(call, MinerUAPIError(<<"upload">>, status))
       \/ call' = [call EXCEPT !.pc = "poll", !.elapsed = 0]
    /\ io' = NoIO
    /\ UNCHANGED pipelineVars

\* 3. the head of the while loop: elapsed is computed and tested, and the
\* status query is sent
PollCheck ==
    /\ call.pc = "poll"
    /\ call' = IF PollExpired(call.elapsed)
               THEN Handle(call, MinerUAPIError(<<"polltimeout", call.elapsed>>, 0))
               ELSE [call EXCEPT !.pc = "query"]
    /\ io' = NoIO
    /\ UNCHANGED pipelineVars

PollOutcomeFailFast(c, state, full_zip_url) ==
    IF state = "" THEN [c EXCEPT !.pc = "pollsleep"]
    ELSE IF state = "done"
    THEN IF full_zip_url THEN [c EXCEPT !.pc = "download", !.elapsed = 0]
         ELSE Handle(c, MinerUAPIError(<<"nozipurl">>, 0))
    ELSE IF state = "failed" THEN Handle(c, MinerUAPIError(<<"jobfailed">>, 0))
    ELSE IF state \in NonTerminalStates THEN [c EXCEPT !.pc = "pollsleep"]
    ELSE Handle(c, MinerUAPIError(<<"unknownstate">>, 0))

\* the branches of the loop on extract_result and on its first entry's state
PollOutcome(c, state, full_zip_url) ==
    IF state = "" THEN [c EXCEPT !.pc = "pollsleep"]
    ELSE IF state = "done"
    THEN IF full_zip_url THEN [c EXCEPT !.pc = "download", !.elapsed = 0]
         ELSE Handle(c, MinerUAPIError(<<"nozipurl">>, 0))
    ELSE IF state = "failed" THEN Handle(c, MinerUAPIError(<<"jobfailed">>, 0))
    ELSE IF state \in NonTerminalStates THEN [c EXCEPT !.pc = "pollsleep"]
    ELSE [c EXCEPT !.pc = "pollsleep"]

\* the status query comes back after `t` seconds: the request raises, or it
\* is answered with a status other than 200, with 200 and a body that is
\* not JSON, with 200 and code != 0, or with 200, code 0 and a job state.
\* io is the answer: the exception of the request, the HTTP status (0 for
\* none), the code of the body and the state of the job.
PollResponse ==
    /\ call.pc = "query"
    /\ \E t \in QueryTimes :
          LET c == [call EXCEPT !.elapsed = @ + t]
          IN  \/ \E e \in TransportErrors :
                    /\ call' = Handle(c, e)
                    /\ io' = [op |-> "poll", error |-> e, status_code |-> 0,
                              code |-> 0, state |-> "", full_zip_url |-> FALSE]
              \/ \E status \in HttpStatus \ {200} :
                    /\ call' = Handle(c, MinerUAPIError(<<"query">>, status))
                    /\ io' = [op |-> "poll", error |-> NoError, status_code |-> status,
                              code |-> 0, state |-> "", full_zip_url |-> FALSE]
              \/ /\ call' = Handle(c, Exc("JSONDecodeError", 0, <<"badjson">>))
                 /\ io' = [op |-> "poll", error |-> Exc("JSONDecodeError", 0, <<"badjson">>),
                           status_code |-> 200, code |-> 0, state |-> "",
                           full_zip_url |-> FALSE]
              \/ /\ call' = Handle(c, MinerUAPIError(<<"query">>, 0))
                 /\ io' = [op |-> "poll", error |-> NoError, status_code |-> 200,
                           code |-> -1, state |-> "", full_zip_url |-> FALSE]
              \/ \E state \in JobStates, full_zip_url \in BOOLEAN :
                    /\ call' = PollOutcome(c, state, full_zip_url)
                    /\ io' = [op |-> "poll", error |-> NoError, status_code |-> 200,
                              code |-> 0, state |-> state,
                              full_zip_url |-> full_zip_url]
    /\ UNCHANGED pipelineVars

\* await asyncio.sleep(self.poll_interval), back to the head of the loop
PollSleep ==
    /\ call.pc = "pollsleep"
    /\ call' = [call EXCEPT !.pc = "poll", !.elapsed = @ + poll_interval]
    /\ io' = NoIO
    /\ UNCHANGED pipelineVars

\* 4-6. _download_result_zip, _extract_markdown_from_zip, clean_markdown_text
DownloadAndExtract ==
    /\ call.pc = "download"
    /\ \/ \E e \in TransportErrors : call' = Handle(call, e)
       \/ \E status \in HttpStatus \ {200} :
             call' = Handle(call, MinerUAPIError(<<"download">>, status))
       \/ call' = Handle(call, MinerUAPIError(<<"emptyzip">>, 0))
       \/ call' = Handle(call, Exc("BadZipFile", 0, <<"badzip">>))
       \/ \* md_files is empty
          call' = Handle(call, MinerUAPIError(<<"noartifact">>, 0))
       \/ \E n \in TextLengths : call' = Returned(call, n)
    /\ io' = NoIO
    /\ UNCHANGED pipelineVars

BackoffDelayFlat(attempt) == retry_delay

\* self.retry_delay * attempt
BackoffDelay(attempt) == retry_delay * attempt

\* await asyncio.sleep(self.retry_delay * attempt), then the next attempt
Backoff ==
    /\ call.pc = "backoff"
    /\ call' = NextAttempt([call EXCEPT !.waited = BackoffDelay(call.attempt)])
    /\ io' = NoIO
    /\ UNCHANGED pipelineVars

ParseNext ==
    \/ ParseStart
    \/ ApplyUploadUrl
    \/ UploadFile
    \/ PollCheck
    \/ PollResponse
    \/ PollSleep
    \/ DownloadAndExtract
    \/ Backoff

\* the event loop resumes the coroutine whenever the awaited call is over
ParseSpec == ParseInit /\ [][ParseNext]_vars /\ WF_vars(ParseNext)

(***************************************************************************)
(* The FAILED write alone, for exception messages of any length: a run in  *)
(* its except clause with the message str(e) of the exception it caught.   *)
(***************************************************************************)
\* a message of n characters
Message(n) == [i \in 1..n |-> IF i % 3 = 0 THEN "a" ELSE IF i % 3 = 1 THEN "b" ELSE "c"]

MessageLengths ==
    (0..MaxExtra) \cup ((ErrorMessageLimit - MaxExtra)..(ErrorMessageLimit + MaxExtra))

TruncationInit ==
    /\ \E n \in MessageLengths :
          runs = SetToBag({[ScheduledRun(1, StoragePath(_calculate_sha256(pdfBytes)))
                               EXCEPT !.pc = "failing", !.err = Message(n),
                                      !.raised = Message(n)]})
    /\ docs = [i \in DocId |->
                 IF i = 1
                 THEN [NewDocument("test.pdf", StoragePath(_calculate_sha256(pdfBytes)),
                                   _calculate_sha256(pdfBytes), pdfBytes.size)
                          EXCEPT !.status = PROCESSING]
                 ELSE NoDoc]
    /\ origin = [i \in DocId |->
                   IF i = 1
                   THEN [filepath |-> StoragePath(_calculate_sha256(pdfBytes)),
                         sha256 |-> _calculate_sha256(pdfBytes)]
                   ELSE NoDoc]
    /\ nextId = 2
    /\ storage = [p \in Paths |->
                    IF p = StoragePath(_calculate_sha256(pdfBytes)) THEN pdfBytes
                    ELSE NoFile]
    /\ parsed = {}
    /\ uploads = EmptyBag
    /\ resp = NoResp
    /\ adminOps = 0
    /\ io = NoIO
    /\ call = NoCall
    /\ embed = NoEmbed
    /\ cleaning = NoText

TruncationNext == \E run \in BagToSet(runs) : RunMarkFailed(run)

TruncationSpec == TruncationInit /\ [][TruncationNext]_vars

(***************************************************************************)
(* Text cleaning: clean_markdown_text of parser_service and its helpers.   *)
(* A text is a sequence of tokens: single characters, and the words the    *)
(* patterns look for, each taken whole.                                    *)
(***************************************************************************)
\* the pipeline before any request
PipelineIdle ==
    /\ docs = [i \in DocId |-> NoDoc]
    /\ nextId = 1
    /\ storage = [p \in Paths |-> NoFile]
    /\ parsed = {}
    /\ uploads = EmptyBag
    /\ resp = NoResp
    /\ runs = EmptyBag
    /\ origin = [i \in DocId |-> NoDoc]
    /\ adminOps = 0
    /\ io = NoIO

MarkdownAlphabet == {"\n", " ", "\t", "#", "1", ".", "References", "Appendix", "x"}

\* what \s matches and str.strip() removes
Whitespace == {" ", "\n", "\t", "\r", "U+00A0"}

Texts(alphabet, n) == UNION {[1..k -> alphabet] : k \in 0..n}

AllIn(s, a, b, S) == \A k \in a..b : s[k] \in S
First(S) == CHOOSE m \in S : \A k \in S : m <= k
Last(S) == CHOOSE m \in S : \A k \in S : m >= k

\* str.lstrip(), str.rstrip(), str.strip()
Lstrip(s) ==
    LET kept == {k \in 1..Len(s) : s[k] \notin Whitespace}
    IN  IF kept = {} THEN <<>> ELSE SubSeq(s, First(kept), Len(s))
Rstrip(s) ==
    LET kept == {k \in 1..Len(s) : s[k] \notin Whitespace}
    IN  IF kept = {} THEN <<>> ELSE SubSeq(s, 1, Last(kept))
Strip(s) == Lstrip(Rstrip(s))

\* s without the tokens at the positions in `dropped`
Without(s, dropped) ==
    LET f[i \in 0..Len(s)] ==
            IF i = 0 THEN <<>>
            ELSE IF i \in dropped THEN f[i - 1] ELSE Append(f[i - 1], s[i])
    IN  f[Len(s)]

\* re.sub(r" +", " ", text)
CollapseSpaces(s) == Without(s, {i \in 2..Len(s) : s[i] = " " /\ s[i - 1] = " "})

CollapseAllNewlines(s) == Without(s, {i \in 2..Len(s) : s[i] = "\n" /\ s[i - 1] = "\n"})

\* re.sub(r"\n{3,}", "\n\n", text)
CollapseNewlines(s) ==
    Without(s, {i \in 3..Len(s) : s[i] = "\n" /\ s[i - 1] = "\n" /\ s[i - 2] = "\n"})

\* text.split(sep) and sep.join(lines)
RECURSIVE Split(_, _)
Split(s, sep) ==
    LET at == {k \in 1..Len(s) : s[k] = sep}
    IN  IF at = {} THEN <<s>>
        ELSE <<SubSeq(s, 1, First(at) - 1)>>
                 \o Split(SubSeq(s, First(at) + 1, Len(s)), sep)
RECURSIVE Join(_, _)
Join(lines, sep) ==
    IF Len(lines) = 1 THEN lines[1]
    ELSE lines[1] \o <<sep>> \o Join(Tail(lines), sep)

_normalize_whitespace(text) ==
    LET split == Split(CollapseNewlines(CollapseSpaces(text)), "\n")
        lines == [k \in 1..Len(split) |-> Strip(split[k])]
    IN  Join(lines, "\n")

\* s[a..b] matches \s*#{0,3}\s*
HashPrefix(s, a, b) ==
    \E p \in a..(b + 1) : \E q \in (p - 1)..b :
        /\ q - p + 1 <= 3
        /\ AllIn(s, a, p - 1, Whitespace)
        /\ AllIn(s, p, q, {"#"})
        /\ AllIn(s, q + 1, b, Whitespace)

\* s[a..b] matches \s*\d+\.?\s*
NumberPrefix(s, a, b) ==
    \E p \in a..b : \E q \in p..b : \E dot \in {0, 1} :
        /\ AllIn(s, a, p - 1, Whitespace)
        /\ AllIn(s, p, q, {"1"})
        /\ q + dot <= b
        /\ dot = 1 => s[q + 1] = "."
        /\ AllIn(s, q + dot + 1, b, Whitespace)

\* one of ref_patterns matches from position i on: a newline, the prefix of
\* the heading, the word, and white space up to a newline
RefPatternAt(s, i) ==
    /\ s[i] = "\n"
    /\ \E j \in (i + 1)..Len(s) : \E k \in (j + 1)..Len(s) :
          /\ s[j] = "References"
          /\ HashPrefix(s, i + 1, j - 1) \/ NumberPrefix(s, i + 1, j - 1)
          /\ AllIn(s, j + 1, k - 1, Whitespace)
          /\ s[k] = "\n"

\* one of next_section_patterns matches from position i on: a heading word
\* after its prefix, or (under re.IGNORECASE) any letter, a dot and white space
NextSectionPatternAt(s, i) ==
    /\ s[i] = "\n"
    /\ \E j \in (i + 1)..Len(s) :
          /\ AllIn(s, i + 1, j - 1, Whitespace \cup {"#"})
          /\ \/ s[j] = "Appendix" /\ HashPrefix(s, i + 1, j - 1)
             \/ /\ s[j] = "x"
                /\ AllIn(s, i + 1, j - 1, Whitespace)
                /\ j + 2 <= Len(s)
                /\ s[j + 1] = "."
                /\ s[j + 2] \in Whitespace

\* ref_start: the least start of a match of any of ref_patterns, or 0
RefStart(text) ==
    LET starts == {i \in 1..Len(text) : RefPatternAt(text, i)}
    IN  IF starts = {} THEN 0 ELSE First(starts)

RefEndOfText(text, ref_start) == Len(text) + 1

\* ref_end: the least start of a match of any of next_section_patterns in
\* the text after ref_start, or the end of the text
RefEnd(text, ref_start) ==
    LET starts == {i \in (ref_start + 1)..Len(text) : NextSectionPatternAt(text, i)}
    IN  IF starts = {} THEN Len(text) + 1 ELSE First(starts)

_remove_references_section(text) ==
    LET ref_start == RefStart(text)
        ref_end == RefEnd(text, ref_start)
        before_ref == Rstrip(SubSeq(text, 1, ref_start - 1))
        after_ref == IF ref_end <= Len(text)
                     THEN Lstrip(SubSeq(text, ref_end, Len(text)))
                     ELSE <<>>
    IN  IF ref_start = 0 THEN text
        ELSE IF after_ref # <<>> THEN before_ref \o <<"\n", "\n">> \o after_ref
        ELSE before_ref \o <<"\n">>

clean_markdown_text(text) ==
    Strip(_normalize_whitespace(_remove_references_section(text)))

TextInit ==
    /\ PipelineIdle
    /\ call = NoCall
    /\ embed = NoEmbed
    /\ \E t \in Texts(MarkdownAlphabet, MaxTextLen) :
          cleaning = [pc |-> "input", text |-> t, out |-> <<>>]

ApplyRemoveReferences ==
    /\ cleaning.pc = "input"
    /\ cleaning' = [cleaning EXCEPT !.pc = "_remove_references_section",
                                    !.out = _remove_references_section(cleaning.text)]
    /\ UNCHANGED <<docs, nextId, storage, parsed, uploads, resp, runs, origin,
                   adminOps, io, call, embed>>

ApplyNormalizeWhitespace ==
    /\ cleaning.pc = "input"
    /\ cleaning' = [cleaning EXCEPT !.pc = "_normalize_whitespace",
                                    !.out = _normalize_whitespace(cleaning.text)]
    /\ UNCHANGED <<docs, nextId, storage, parsed, uploads, resp, runs, origin,
                   adminOps, io, call, embed>>

ApplyCleanMarkdown ==
    /\ cleaning.pc = "input"
    /\ cleaning' = [cleaning EXCEPT !.pc = "clean_markdown_text",
                                    !.out = clean_markdown_text(cleaning.text)]
    /\ UNCHANGED <<docs, nextId, storage, parsed, uploads, resp, runs, origin,
                   adminOps, io, call, embed>>

TextNext == ApplyRemoveReferences \/ ApplyNormalizeWhitespace \/ ApplyCleanMarkdown

TextSpec == TextInit /\ [][TextNext]_vars

(***************************************************************************)
(* rag_service: _sanitize_text_for_embedding. A character is named by its  *)
(* code point, "U+....", or written as itself when it is ASCII; a word of  *)
(* ASCII letters that the excision patterns look for is one token.         *)
(***************************************************************************)
SanitizeAlphabet ==
    {"b", " ", "\n", "U+0000", "U+00A0", "U+200B", "U+200D", "U+0332", "U+2264",
     "U+1F600", "U+4E2D", "U+FFE8", "References"}

\* ord(c); a word stands under the code of its first letter, every
\* character of it being an ASCII letter
Ord(c) ==
    CASE c = "b" -> 98
      [] c = " " -> 32
      [] c = "\n" -> 10
      [] c = "\t" -> 9
      [] c = "\r" -> 13
      [] c = "<" -> 60
      [] c = "=" -> 61
      [] c = "U+0000" -> 0
      [] c = "U+00A0" -> 160
      [] c = "U+200B" -> 8203
      [] c = "U+200D" -> 8205
      [] c = "U+0332" -> 818
      [] c = "U+2264" -> 8804
      [] c = "U+2502" -> 9474
      [] c = "U+1F600" -> 128512
      [] c = "U+4E2D" -> 20013
      [] c = "U+FFE8" -> 65512
      [] c = "References" -> 82
      [] c = "Appendix" -> 65
      [] OTHER -> 120

\* ''.join(parts)
Concat(parts) ==
    LET g[i \in 0..Len(parts)] == IF i = 0 THEN <<>> ELSE g[i - 1] \o parts[i]
    IN  g[Len(parts)]

\* unicodedata.normalize('NFKC', text), character by character
NFKC(s) ==
    Concat([i \in 1..Len(s) |->
               CASE s[i] = "U+00A0" -> <<" ">>
                 [] s[i] = "U+FFE8" -> <<"U+2502">>
                 [] OTHER -> <<s[i]>>])

\* [\x00-\x08\x0b\x0c\x0e-\x1f\x7f-\x9f]
IsControl(c) ==
    \/ Ord(c) <= 8
    \/ Ord(c) \in {11, 12}
    \/ 14 <= Ord(c) /\ Ord(c) <= 31
    \/ 127 <= Ord(c) /\ Ord(c) <= 159

\* [\u00a0\u2000-\u200b\u202f\u205f\u3000]
IsSpecialSpace(c) ==
    \/ Ord(c) \in {160, 8239, 8287, 12288}
    \/ 8192 <= Ord(c) /\ Ord(c) <= 8203

\* [\u200c\u200d\ufeff]
IsZeroWidth(c) == Ord(c) \in {8204, 8205, 65279}

\* [\u0300-\u036f], [\ue000-\uf8ff], [\ud800-\udfff]
IsCombiningOrPrivate(c) ==
    \/ 768 <= Ord(c) /\ Ord(c) <= 879
    \/ 57344 <= Ord(c) /\ Ord(c) <= 63743
    \/ 55296 <= Ord(c) /\ Ord(c) <= 57343

\* steps 2 to 5: control characters removed, special spaces turned into
\* spaces, zero-width, combining and private-use characters removed
Scrub(s) ==
    LET kept == Without(s, {i \in 1..Len(s) :
                               \/ IsControl(s[i])
                               \/ ~IsSpecialSpace(s[i])
                                     /\ (IsZeroWidth(s[i]) \/ IsCombiningOrPrivate(s[i]))})
    IN  [i \in 1..Len(kept) |-> IF IsSpecialSpace(kept[i]) THEN " " ELSE kept[i]]

\* for old, new in replacements.items(): text = text.replace(old, new)
Replacement(s) ==
    Concat([i \in 1..Len(s) |->
               CASE s[i] = "U+2264" -> <<"<", "=">>
                 [] OTHER -> <<s[i]>>])

is_safe_char(c) ==
    \/ 32 <= Ord(c) /\ Ord(c) <= 126
    \/ c \in {"\n", "\t", "\r"}
    \/ 19968 <= Ord(c) /\ Ord(c) <= 40959
    \/ 13312 <= Ord(c) /\ Ord(c) <= 19903
    \/ 12288 <= Ord(c) /\ Ord(c) <= 12351
    \/ 65280 <= Ord(c) /\ Ord(c) <= 65519
    \/ 12352 <= Ord(c) /\ Ord(c) <= 12543
    \/ 44032 <= Ord(c) /\ Ord(c) <= 55215
    \/ 192 <= Ord(c) /\ Ord(c) <= 591

KeepUnsafe(s) == s

\* ''.join(c if is_safe_char(c) else ' ' for c in text)
MaskUnsafe(s) == [i \in 1..Len(s) |-> IF is_safe_char(s[i]) THEN s[i] ELSE " "]

\* re.sub(r'\n+', '\n', text)
CollapseNewlineRuns(s) == Without(s, {i \in 2..Len(s) : s[i] = "\n" /\ s[i - 1] = "\n"})

_sanitize_text_for_embedding(text) ==
    Strip(CollapseNewlineRuns(CollapseSpaces(MaskUnsafe(Replacement(Scrub(NFKC(
        _remove_references_section(text))))))))

SanitizeInit ==
    /\ PipelineIdle
    /\ call = NoCall
    /\ embed = NoEmbed
    /\ \E t \in Texts(SanitizeAlphabet, MaxSanitizeLen) :
          cleaning = [pc |-> "input", text |-> t, out |-> <<>>]

ApplySanitize ==
    /\ cleaning.pc = "input"
    /\ cleaning' = [cleaning EXCEPT !.pc = "_sanitize_text_for_embedding",
                                    !.out = _sanitize_text_for_embedding(cleaning.text)]
    /\ UNCHANGED <<docs, nextId, storage, parsed, uploads, resp, runs, origin,
                   adminOps, io, call, embed>>

SanitizeSpec == SanitizeInit /\ [][ApplySanitize]_vars

(***************************************************************************)
(* rag_service: _safe_ollama_embed, the embedding function given to        *)
(* LightRAG, and the tracker of the warnings it has logged.                *)
(***************************************************************************)
EmbeddingDim == 1024

\* str(doc_id), and the mark insert_document puts in front of the text
DocIdText(d) == <<ToString(d)>>
Marker(d) == "[DOC_ID:" \o ToString(d) \o "]"

\* the chunks LightRAG cuts the text of document d into: the first one
\* starts with the mark
Chunks(d) == {<<Marker(d), "b">>, <<"U+4E2D", "U+1F600">>}
Batches(d) == UNION {[1..n -> Chunks(d)] : n \in 1..MaxBatch}

\* str(e) of the exception ollama_embed raises; Null when it returns
EmbedErrors ==
    {<<"failed", "NaN">>, <<"status", "500">>, <<"JSON", "decode">>,
     <<"connection", "refused">>}

\* str.lower() of a word
Lower(w) == CASE w = "JSON" -> "json" [] w = "NaN" -> "nan" [] OTHER -> w

IsNaNErrorCaseSensitive(error_str) ==
    \E i \in 1..Len(error_str) : error_str[i] \in {"NaN", "500", "json"}

\* "NaN" in error_str or "500" in error_str or "json" in error_str.lower()
IsNaNError(error_str) ==
    \/ \E i \in 1..Len(error_str) : error_str[i] \in {"NaN", "500"}
    \/ \E i \in 1..Len(error_str) : Lower(error_str[i]) = "json"

\* re.search(r'\[DOC_ID:([^\]]+)\]', text): the id in the first mark, or None
_extract_doc_id_from_text(t) ==
    LET at == {i \in 1..Len(t) : \E d \in DocId : t[i] = Marker(d)}
    IN  IF at = {} THEN Null
        ELSE DocIdText(CHOOSE d \in DocId : t[First(at)] = Marker(d))

\* the key under which a degraded batch is remembered: the id found in the
\* first text that has a mark, else the first 50 characters of the first
\* cleaned text
LogKey(texts) ==
    LET marked == {i \in 1..Len(texts) : _extract_doc_id_from_text(texts[i]) # Null}
    IN  IF marked # {} THEN _extract_doc_id_from_text(texts[First(marked)])
        ELSE Take(_sanitize_text_for_embedding(texts[1]), 50)

\* a list of `rows` vectors of `dim` numbers each; `zero` tells whether
\* every number is 0.0
Vectors(rows, dim, zero) == [rows |-> rows, dim |-> dim, zero |-> zero]

\* nothing is returned: the call raises
NoVectors == Vectors(0, 0, FALSE)

\* [[0.0] * 1024 for _ in range(len(texts))]
ZeroVectors(texts) == Vectors(Len(texts), EmbeddingDim, TRUE)

\* what ollama_embed returns: the embedding of each cleaned text
ModelVectors(texts) == Vectors(Len(texts), EmbeddingDim, FALSE)

\* the result of one call: the value returned or the exception raised, the
\* tracker after the call, and whether the warning was logged
_safe_ollama_embed(texts, error, logged) ==
    IF error = Null
    THEN [raised |-> Null, value |-> ModelVectors(texts), logged |-> logged,
          warning |-> FALSE]
    ELSE IF IsNaNError(error)
    THEN [raised |-> Null, value |-> ZeroVectors(texts),
          logged |-> logged \cup {LogKey(texts)},
          warning |-> LogKey(texts) \notin logged]
    ELSE [raised |-> error, value |-> NoVectors, logged |-> logged, warning |-> FALSE]

EmbedInit ==
    /\ PipelineIdle
    /\ call = NoCall
    /\ cleaning = NoText
    /\ embed = [pc |-> "serving", logged |-> {}, inserting |-> {},
                warned |-> [d \in DocId |-> 0], out |-> NoIO]

\* insert_document(d) up to its await of rag.ainsert: reset_nan_warning_tracker()
InsertBegin(d) ==
    /\ embed.pc = "serving"
    /\ d \notin embed.inserting
    /\ embed' = [embed EXCEPT !.logged = {}, !.inserting = @ \cup {d}, !.out = NoIO]
    /\ UNCHANGED <<docs, nextId, storage, parsed, uploads, resp, runs, origin,
                   adminOps, io, call, cleaning>>

\* LightRAG embeds one batch of chunks of a document it is inserting
EmbedBatch(d) ==
    /\ embed.pc = "serving"
    /\ d \in embed.inserting
    /\ \E texts \in Batches(d) : \E error \in EmbedErrors \cup {Null} :
          \E res \in {_safe_ollama_embed(texts, error, embed.logged)} :
              /\ res.warning => embed.warned[d] < MaxWarnings
              /\ embed' = [embed EXCEPT
                     !.logged = res.logged,
                     !.warned[d] = IF res.warning THEN @ + 1 ELSE @,
                     !.out = [op |-> "_safe_ollama_embed", texts |-> texts,
                              error |-> error, raised |-> res.raised,
                              value |-> res.value]]
    /\ UNCHANGED <<docs, nextId, storage, parsed, uploads, resp, runs, origin,
                   adminOps, io, call, cleaning>>

\* rag.ainsert returns or raises: insert_document(d) is over
InsertEnd(d) ==
    /\ embed.pc = "serving"
    /\ d \in embed.inserting
    /\ embed' = [embed EXCEPT !.inserting = @ \ {d}, !.out = NoIO]
    /\ UNCHANGED <<docs, nextId, storage, parsed, uploads, resp, runs, origin,
                   adminOps, io, call, cleaning>>

EmbedNext ==
    \/ \E d \in DocId : InsertBegin(d)
    \/ \E d \in DocId : EmbedBatch(d)
    \/ \E d \in DocId : InsertEnd(d)

EmbedSpec == EmbedInit /\ [][EmbedNext]_vars

Next ==
    \/ UploadLookup
    \/ \E up \in BagToSet(uploads) : UploadRetryFailed(up)
    \/ \E up \in BagToSet(uploads) : UploadSaveFile(up)
    \/ \E up \in BagToSet(uploads) : UploadCreate(up)
    \/ \E run \in BagToSet(runs) : RunMarkProcessing(run)
    \/ \E run \in BagToSet(runs) : RunValidate(run)
    \/ \E run \in BagToSet(runs) : RunExtract(run)
    \/ \E run \in BagToSet(runs) : RunOpenSession(run)
    \/ \E run \in BagToSet(runs) : RunReadMeta(run)
    \/ \E run \in BagToSet(runs) : RunGenerateSummary(run)
    \/ \E run \in BagToSet(runs) : RunUpdateSummary(run)
    \/ \E run \in BagToSet(runs) : RunInsert(run)
    \/ \E run \in BagToSet(runs) : RunMarkCompleted(run)
    \/ \E run \in BagToSet(runs) : RunMarkFailed(run)
    \/ \E i \in DocId : rename_document(i)
    \/ \E i \in DocId : delete_document(i)

Spec == Init /\ [][Next]_vars

TypeOK ==
    /\ nextId \in 1..(MaxDocs + 1)
    /\ adminOps \in 0..MaxAdminOps
    /\ InFlight <= MaxInFlight
    /\ \A i \in Rows(docs) : docs[i].status \in DocumentStatus
    /\ \A run \in BagToSet(runs) :
          /\ run.pc \in {"scheduled", "validate", "extracting", "meta", "select",
                         "summarize", "savesummary", "insert", "complete", "failing"}
          /\ run.db \in {"closed", "open"}
    /\ \A up \in BagToSet(uploads) : up.pc \in {"new", "retry", "written"}

(***************************************************************************)
(* Properties.                                                             *)
(***************************************************************************)
StatusEdges == {<<PENDING, PROCESSING>>, <<PROCESSING, COMPLETED>>,
                <<PROCESSING, FAILED>>, <<FAILED, PENDING>>}

\* the bytes a storage path stands for (the path is derived from the digest)
ContentAt(path) == CHOOSE c \in Contents : StoragePath(_calculate_sha256(c)) = path

\* the step takes one copy of `run` out of the bag of tasks
Leaves(run) == CopiesIn(run, runs') < CopiesIn(run, runs)

\* C1: every committed change of a record's status follows one of the edges
\* PENDING->PROCESSING, PROCESSING->COMPLETED, PROCESSING->FAILED,
\* FAILED->PENDING.
C1_StatusEdges ==
    [][\A i \in DocId :
          (docs[i] # NoDoc /\ docs'[i] # NoDoc /\ docs'[i].status # docs[i].status)
              => <<docs[i].status, docs'[i].status>> \in StatusEdges]_vars

\* C2: in every committed state of every record, error_message is non-null
\* exactly when status is FAILED.
C2_ErrorIffFailed ==
    \A i \in Rows(docs) : (docs[i].error_message # Null) <=> (docs[i].status = FAILED)

\* C3: when a run that committed PROCESSING ends with its last status write,
\* the record (if it still exists) is COMPLETED or FAILED, never left in
\* PROCESSING.
C3_NoStuckProcessing ==
    [][\A run \in BagToSet(runs) :
          (run.pc \in {"complete", "failing"} /\ Leaves(run)
              /\ docs'[run.doc_id] # NoDoc)
              => docs'[run.doc_id].status \in {COMPLETED, FAILED}]_vars

\* C4: the store holds at most one record per fingerprint, every accepted
\* submission (202) has exactly one record with its fingerprint, namely the
\* one returned, and no record is lost while nothing is deleted.
C4_OneRecordPerFingerprint ==
    /\ \A i, j \in Rows(docs) : docs[i].sha256 = docs[j].sha256 => i = j
    /\ resp.code = 202 => SelectBySha(docs, resp.sha256) = {resp.id}
    /\ adminOps = 0 => \A i \in DocId : origin[i] # NoDoc => docs[i] # NoDoc

\* two submissions of the same bytes raced: one committed its record while
\* the other, which had found none, is about to commit
C4_Witness ==
    \E up \in BagToSet(uploads) :
        up.pc = "written" /\ SelectBySha(docs, up.sha256) # {}

\* C5: a submission whose fingerprint has a record that is not FAILED is
\* answered with that record's id in the lookup step, which changes no
\* record, writes no file and schedules no task; only a lookup that found a
\* FAILED record goes on to the reset, only one that found none to the save.
C5_DuplicateReturnsExisting ==
    /\ [](\A up \in BagToSet(uploads) :
             /\ up.pc = "retry" => up.existing # NoDoc /\ up.existing.status = FAILED
             /\ up.pc \in {"new", "written"} => up.existing = NoDoc)
    /\ [][(uploads' = uploads /\ resp'.code = 202)
             => /\ resp'.id \in SelectBySha(docs, resp'.sha256)
                /\ docs[resp'.id].status # FAILED
                /\ UNCHANGED <<docs, nextId, storage, parsed, runs>>]_vars

\* a 202 answer for a record that is COMPLETED: only a duplicate submission
\* gives it (a created or reset record is PENDING when the answer is sent)
C5_Witness ==
    /\ resp.code = 202
    /\ docs[resp.id] # NoDoc
    /\ docs[resp.id].status = COMPLETED

\* C6: the step that resubmits a FAILED record sets status PENDING and
\* error_message NULL in one commit, leaves every other field of the record
\* and every other record as they are, adds exactly one task for the record
\* with the path stored at creation, and writes no file.
C6_RetryResets ==
    [][\A up \in BagToSet(uploads) :
          (up.pc = "retry" /\ uploads' = Drop(uploads, up) /\ resp'.code = 202)
              => LET i == up.existing.id
                 IN  /\ docs' = [docs EXCEPT ![i] = [@ EXCEPT !.status = PENDING,
                                                              !.error_message = Null]]
                     /\ runs' = Put(runs, ScheduledRun(i, origin[i].filepath))
                     /\ UNCHANGED <<storage, nextId>>]_vars

\* a 202 answer for a PENDING record whose text had been extracted before:
\* the record was FAILED and has just been reset
C6_Witness ==
    /\ resp.code = 202
    /\ docs[resp.id] # NoDoc
    /\ docs[resp.id].status = PENDING
    /\ resp.id \in parsed
    /\ \E run \in BagToSet(runs) : run.pc = "scheduled" /\ run.doc_id = resp.id

\* C7: filepath and sha256 of every record keep the values set at creation.
C7_PathAndFingerprintFixed ==
    \A i \in Rows(docs) :
        /\ docs[i].filepath = origin[i].filepath
        /\ docs[i].sha256 = origin[i].sha256

\* a record that was renamed, got a summary, failed and was reset
C7_Witness ==
    \E i \in Rows(docs) :
        /\ docs[i].filename = "paper.pdf"
        /\ docs[i].summary # Null
        /\ docs[i].status = PENDING

\* what upload_document accepts: a .pdf name, 1..max_file_size_mb MiB bytes
Acceptable(name, size) ==
    /\ name \in {"test.pdf", "paper.pdf"}
    /\ size > 0
    /\ size <= max_file_size_mb * 1024 * 1024

\* C8: a submission that is empty, oversized or not named .pdf is answered
\* with an error in a step that changes nothing else; no request past
\* validation, no stored file and no record ever holds such a file.
C8_InvalidRejectedFirst ==
    /\ [](/\ \A up \in BagToSet(uploads) : Acceptable(up.name, up.content.size)
          /\ \A p \in Paths : storage[p] # NoFile => Acceptable("test.pdf", storage[p].size)
          /\ \A i \in Rows(docs) : Acceptable(docs[i].filename, docs[i].filesize))
    /\ [][resp'.code \in {400, 413}
             => UNCHANGED <<docs, nextId, storage, parsed, uploads, runs, origin>>]_vars

C8_Witness == resp.code = 413

\* C9 as stated: content without the PDF magic never gets past validation,
\* so no request in flight and no stored file holds such content.
C9_MagicCheckedBeforeFingerprint ==
    /\ \A up \in BagToSet(uploads) : up.content.head = PdfMagic
    /\ \A p \in Paths : storage[p] # NoFile => storage[p].head = PdfMagic

\* a run is past validate_pdf: it has issued the extraction request
PastValidation(run) ==
    \/ run.pc \in {"extracting", "meta", "select", "summarize", "savesummary", "insert",
                  "complete"}
    \/ run.pc = "failing" /\ run.err \notin {MsgBadHeader, MsgFileMissing}

\* C9 amended: the magic check is made by the pipeline run, after the
\* PROCESSING mark: a run whose stored file lacks the magic raises the
\* invalid-format error in its validation step, and no run issues an
\* extraction request for such a file.
C9_MagicCheckedInRun ==
    /\ [](\A run \in BagToSet(runs) :
             PastValidation(run) => ContentAt(run.filepath).head = PdfMagic)
    /\ [][\A run \in BagToSet(runs) :
             (run.pc = "validate" /\ Leaves(run) /\ storage[run.filepath] # NoFile
                 /\ storage[run.filepath].head # PdfMagic)
                 => runs' = Move(runs, run, [run EXCEPT !.pc = "failing",
                                                        !.err = MsgBadHeader,
                                                        !.raised = MsgBadHeader])]_vars

\* content without the magic was accepted, stored and recorded, and its run
\* ended FAILED with the invalid-format message
C9_Witness ==
    \E i \in Rows(docs) :
        /\ ContentAt(docs[i].filepath).head # PdfMagic
        /\ docs[i].status = FAILED
        /\ docs[i].error_message = MsgBadHeader

\* C10: a run in which a step after the PROCESSING mark raised is in its
\* except clause with that exception, and its next and last step is the
\* FAILED write with the (truncated) message of that exception; it ends
\* there, without a COMPLETED write.
C10_ExceptionBecomesFailed ==
    /\ [](\A run \in BagToSet(runs) :
             run.raised # Null => run.pc = "failing" /\ run.err = run.raised)
    /\ [][\A run \in BagToSet(runs) :
             (run.raised # Null /\ Leaves(run))
                 => /\ runs' = Drop(runs, run)
                    /\ \/ docs' = docs
                       \/ /\ docs[run.doc_id] # NoDoc
                          /\ docs' = [docs EXCEPT ![run.doc_id] =
                                [@ EXCEPT !.status = FAILED,
                                          !.error_message =
                                              Take(run.raised, ErrorMessageLimit)]]]_vars

\* the indexing engine raised and the record is FAILED with its message
C10_Witness ==
    \E i \in Rows(docs) : docs[i].status = FAILED /\ docs[i].error_message = MsgIndex

(***************************************************************************)
(* Properties of parse_pdf, checked under ParseSpec.                       *)
(***************************************************************************)
\* the leading word of an exception's message ("" for no exception)
ErrTag(e) == IF e.message = <<>> THEN "" ELSE e.message[1]

InCall == call.pc # "none"
CallOver == call.pc \in {"returned", "raised"}

\* C13: a poll timeout or a result bundle without a qualifying artifact ends
\* the call with an error: the retry loop does not go on to a new submission.
C13_RetryWrapsSubmitOnly ==
    (InCall /\ ErrTag(call.last_error) \in {"polltimeout", "noartifact"})
        => call.pc = "raised"

\* C14: when the job reports `failed`, parse_pdf fails at once with that
\* error: no sleep, no further attempt.
C14_JobFailureIsImmediate ==
    (InCall /\ ErrTag(call.last_error) = "jobfailed")
        => (call.pc = "raised" /\ call.out = call.last_error)

\* C15: a MinerUAPIError with a 4xx status_code is re-raised on the attempt
\* in which it occurs, whichever attempt that is, and the call makes no
\* further step.
C15_ClientErrorTerminal ==
    /\ []((InCall /\ call.last_error.status_code \in 400..499)
             => (call.pc = "raised" /\ call.out = call.last_error))
    /\ [][call.pc = "raised" => call' = call]_vars

\* a 4xx answer on the second attempt, re-raised
C15_Witness ==
    /\ call.pc = "raised"
    /\ call.attempt = 2
    /\ call.out.status_code = 400

\* C16: the attempt number never exceeds max_retries; the call waits for a
\* retry only before the last permitted attempt; the final "retries
\* exhausted" error is raised on attempt max_retries after a transient
\* failure; and every call ends, by returning or by raising.
C16_BoundedAttempts ==
    /\ [](InCall => call.attempt <= max_retries)
    /\ [](call.pc = "backoff" => call.attempt < max_retries)
    /\ []((call.pc = "raised" /\ ErrTag(call.out) = "exhausted")
             => /\ call.attempt = max_retries
                /\ call.last_error.type \in {"TimeoutException", "ConnectError",
                                             "MinerUAPIError"}
                /\ call.last_error.status_code \notin 400..499)
    /\ <>CallOver

\* three attempts failed on the connection and the call gave up
C16_Witness ==
    /\ call.pc = "raised"
    /\ ErrTag(call.out) = "exhausted"
    /\ call.last_error = ConnectError
    /\ call.waited = retry_delay * (max_retries - 1)

\* C17 as stated: no status query is started once more than max_poll_time
\* has elapsed, and the timeout is raised within max_poll_time plus one
\* poll interval.
C17_TimeoutWithinOneInterval ==
    /\ call.pc = "query" => call.elapsed <= max_poll_time
    /\ (InCall /\ ErrTag(call.last_error) = "polltimeout")
          => call.last_error.message[2] <= max_poll_time + poll_interval

\* C17 amended: no status query is started once more than max_poll_time has
\* elapsed; every wait advances the clock by one poll interval; the timeout
\* is raised at the first test after max_poll_time, that is within
\* max_poll_time plus the time of the last status query plus one poll
\* interval; and the poll loop is always left.
C17_PollTimeout ==
    /\ [](call.pc = "query" => call.elapsed <= max_poll_time)
    /\ [](call.pc \in {"poll", "query", "pollsleep"}
             => call.elapsed <= max_poll_time + MaxQueryTime + poll_interval)
    /\ []((InCall /\ ErrTag(call.last_error) = "polltimeout")
             => /\ call.last_error.message[2] > max_poll_time
                /\ call.last_error.message[2]
                       <= max_poll_time + MaxQueryTime + poll_interval)
    /\ [][call.pc = "pollsleep" => call'.elapsed = call.elapsed + poll_interval]_vars
    /\ (call.pc = "poll") ~> (call.pc \notin {"poll", "query", "pollsleep"})

\* the service never reported done or failed; the last query began at
\* max_poll_time and the timeout came as late as it can
C17_Witness ==
    /\ InCall
    /\ ErrTag(call.last_error) = "polltimeout"
    /\ call.last_error.message[2] = max_poll_time + MaxQueryTime + poll_interval

(***************************************************************************)
(* Properties of the FAILED write (TruncationSpec) and of the pipeline run *)
(* (Spec).                                                                 *)
(***************************************************************************)
\* C11: the FAILED write stores the first 1000 characters of a message
\* longer than 1000 characters, and a message of at most 1000 characters
\* as it is.
C11_MessageTruncated ==
    [][\A run \in BagToSet(runs) :
          (run.pc = "failing" /\ Leaves(run) /\ docs' # docs)
              => LET m == docs'[run.doc_id].error_message
                 IN  /\ docs'[run.doc_id].status = FAILED
                     /\ IF Len(run.err) > ErrorMessageLimit
                        THEN Len(m) = ErrorMessageLimit
                                 /\ m = SubSeq(run.err, 1, ErrorMessageLimit)
                        ELSE m = run.err]_vars

\* a FAILED record whose message fills the column
C11_Witness ==
    /\ docs[1] # NoDoc
    /\ docs[1].status = FAILED
    /\ Len(docs[1].error_message) = ErrorMessageLimit
    /\ runs = EmptyBag

\* C12: the first step of a run either commits PROCESSING on its record and
\* goes on to validation, or (record missing, store error) commits nothing
\* and ends the run there: no extraction, summary, indexing or status write
\* follows.
C12_AbortWhenMarkFails ==
    [][\A run \in BagToSet(runs) :
          (run.pc = "scheduled" /\ Leaves(run))
              => \/ /\ docs[run.doc_id] # NoDoc
                    /\ docs' = [docs EXCEPT ![run.doc_id] =
                                   [@ EXCEPT !.status = PROCESSING]]
                    /\ runs' = Move(runs, run, [run EXCEPT !.pc = "validate"])
                 \/ /\ runs' = Drop(runs, run)
                    /\ UNCHANGED <<docs, storage, parsed, uploads, nextId>>
                    /\ io' = NoIO]_vars

\* a record still PENDING with no request and no task in flight: the task
\* scheduled with it ended at its first step
C12_Witness ==
    /\ runs = EmptyBag
    /\ uploads = EmptyBag
    /\ \E i \in Rows(docs) : docs[i].status = PENDING

C20_SummaryFailureNotFatal ==
    [][\A run \in BagToSet(runs) :
          /\ (run.pc = "summarize" /\ Leaves(run))
                => /\ docs' = docs
                   /\ IF io'.raised
                      THEN runs' = Move(runs, run, [run EXCEPT !.pc = "insert"])
                      ELSE \E r \in BagToSet(runs') :
                              /\ r.pc = "savesummary"
                              /\ r.summary # Null
                              /\ runs' = Move(runs, run, r)
          /\ (run.pc = "savesummary" /\ Leaves(run))
                => /\ runs' = Move(runs, run, [run EXCEPT !.pc = "insert",
                                                         !.summary = Null])
                   /\ \/ docs' = docs
                      \/ /\ docs[run.doc_id] # NoDoc
                         /\ docs' = [docs EXCEPT ![run.doc_id] =
                                        [@ EXCEPT !.summary = run.summary]]]_vars

\* a record that got COMPLETED without a summary
C20_Witness ==
    \E i \in Rows(docs) : docs[i].status = COMPLETED /\ docs[i].summary = Null

\* the step puts one more copy of `run` into the bag of tasks
Arrives(run) == CopiesIn(run, runs') > CopiesIn(run, runs)

\* C21 as stated: a run whose extraction returned enough text and whose
\* indexing accepted the content leaves its record COMPLETED with no error
\* message.
C21_SuccessfulRunCompletes ==
    [][\A run \in BagToSet(runs) :
          (run.pc = "complete" /\ Leaves(run) /\ docs[run.doc_id] # NoDoc)
              => /\ docs'[run.doc_id].status = COMPLETED
                 /\ docs'[run.doc_id].error_message = Null]_vars

\* C28: the summary of a record changes only in the summary write of a run
\* of that record, and a run gets to that write only through an extraction
\* that returned text of at least MinTextLength characters, the metadata
\* read and a summarization that returned a summary.
C28_SummaryOnlyAfterGate ==
    [][/\ \A i \in DocId :
             (docs[i] # NoDoc /\ docs'[i] # NoDoc /\ docs'[i].summary # docs[i].summary)
                 => \E run \in BagToSet(runs) :
                       run.doc_id = i /\ run.pc = "savesummary" /\ Leaves(run)
       /\ \A run \in BagToSet(runs') :
             Arrives(run) =>
                 /\ run.pc = "meta" =>
                       /\ io'.op = "parse_pdf"
                       /\ ~io'.raised
                       /\ io'.text >= MinTextLength
                       /\ \E r \in BagToSet(runs) :
                             r.doc_id = run.doc_id /\ r.pc = "extracting" /\ Leaves(r)
                 /\ run.pc = "select" =>
                       \E r \in BagToSet(runs) :
                          r.doc_id = run.doc_id /\ r.pc = "meta" /\ Leaves(r)
                 /\ run.pc = "summarize" =>
                       \E r \in BagToSet(runs) :
                          r.doc_id = run.doc_id /\ r.pc = "select" /\ Leaves(r)
                 /\ run.pc = "savesummary" =>
                       /\ io'.op = "_generate_summary"
                       /\ ~io'.raised
                       /\ \E r \in BagToSet(runs) :
                             r.doc_id = run.doc_id /\ r.pc = "summarize" /\ Leaves(r)]_vars

\* a record with a summary
C28_Witness == \E i \in Rows(docs) : docs[i].summary # Null

\* the positions a run can come from, for each position of the pipeline
PhaseBefore ==
    [pc \in {"validate", "extracting", "meta", "select", "summarize", "savesummary",
             "insert", "complete", "failing"} |->
        CASE pc = "validate" -> {"scheduled"}
          [] pc = "extracting" -> {"validate"}
          [] pc = "meta" -> {"extracting"}
          [] pc = "select" -> {"meta"}
          [] pc = "summarize" -> {"select"}
          [] pc = "savesummary" -> {"summarize"}
          [] pc = "insert" -> {"summarize", "savesummary"}
          [] pc = "complete" -> {"insert"}
          [] pc = "failing" -> {"validate", "extracting", "select", "insert"}]

\* C29: a run goes through its phases one at a time and in order: it gets
\* past the PROCESSING mark only in a step that commits PROCESSING, every
\* later position is entered from the position before it, a record gets
\* COMPLETED or FAILED only in the last step of a run, which is at the
\* COMPLETED write after indexing returned or in the except clause, and
\* in no step does more than one run move.
C29_PhasesInOrder ==
    [][/\ \A run \in BagToSet(runs') :
             (Arrives(run) /\ run.pc # "scheduled")
                 => \E r \in BagToSet(runs) :
                       /\ r.doc_id = run.doc_id
                       /\ r.pc \in PhaseBefore[run.pc]
                       /\ runs' = Move(runs, r, run)
       /\ \A run \in BagToSet(runs') :
             (Arrives(run) /\ run.pc = "validate")
                 => /\ docs'[run.doc_id] # NoDoc
                    /\ docs'[run.doc_id].status = PROCESSING
       /\ \A i \in DocId :
             (docs[i] # NoDoc /\ docs'[i] # NoDoc
                 /\ docs'[i].status # docs[i].status
                 /\ docs'[i].status \in {COMPLETED, FAILED})
                 => \E run \in BagToSet(runs) :
                       /\ run.doc_id = i
                       /\ run.pc = IF docs'[i].status = COMPLETED THEN "complete"
                                   ELSE "failing"
                       /\ runs' = Drop(runs, run)]_vars

\* a record completed by a run that went through every phase
C29_Witness ==
    \E i \in Rows(docs) :
       docs[i].status = COMPLETED /\ docs[i].summary # Null /\ i \in parsed

\* C30: a run that is waiting for the extraction, the summarization or the
\* indexing to return holds no session of the metadata store; the session
\* opened for the metadata read is open only until its SELECT returns.
C30_NoSessionAcrossCalls ==
    \A run \in BagToSet(runs) :
       /\ run.pc \in {"extracting", "summarize", "insert"} => run.db = "closed"
       /\ run.db = "open" => run.pc = "select"

\* a run waiting for the summarization, its metadata read behind it
C30_Witness ==
    \E run \in BagToSet(runs) : run.pc = "summarize" /\ run.db = "closed"

\* C24: the output of _remove_references_section. With no references
\* heading the text comes back unchanged. Otherwise, with r the start of
\* the earliest references heading: if no following-section heading starts
\* after r, the output is the text before r and nothing else but white
\* space; if one does, the earliest starting at e, the output is the text
\* before r, white space, and the text from the heading at e on. White
\* space at the seam is not counted: the text before r is taken without
\* its trailing white space, the text from e on without its leading.
C24_ReferencesExcised ==
    cleaning.pc = "_remove_references_section" =>
        LET t == cleaning.text
            out == cleaning.out
            heads == {i \in 1..Len(t) : RefPatternAt(t, i)}
        IN  IF heads = {} THEN out = t
            ELSE LET r == First(heads)
                     nexts == {i \in (r + 1)..Len(t) : NextSectionPatternAt(t, i)}
                     before == Rstrip(SubSeq(t, 1, r - 1))
                 IN  IF nexts = {}
                     THEN /\ Len(out) >= Len(before)
                          /\ SubSeq(out, 1, Len(before)) = before
                          /\ AllIn(out, Len(before) + 1, Len(out), Whitespace)
                     ELSE LET after == Lstrip(SubSeq(t, First(nexts), Len(t)))
                          IN  /\ Len(out) >= Len(before) + Len(after)
                              /\ SubSeq(out, 1, Len(before)) = before
                              /\ SubSeq(out, Len(out) - Len(after) + 1, Len(out)) = after
                              /\ AllIn(out, Len(before) + 1, Len(out) - Len(after),
                                       Whitespace)

\* a text with content, a references heading and a following section went
\* through the excision
C24_Witness ==
    /\ cleaning.pc = "_remove_references_section"
    /\ \E r \in 2..Len(cleaning.text) : \E e \in (r + 1)..Len(cleaning.text) :
          /\ RefPatternAt(cleaning.text, r)
          /\ NextSectionPatternAt(cleaning.text, e)
          /\ cleaning.text[1] \notin Whitespace

\* C25 as stated: the output of _normalize_whitespace has no two spaces in a
\* row, no three newlines in a row, and no white space at the end of a line.
C25_WhitespaceNormalized ==
    cleaning.pc = "_normalize_whitespace" =>
        LET out == cleaning.out
        IN  /\ \A i \in 1..(Len(out) - 1) : ~(out[i] = " " /\ out[i + 1] = " ")
            /\ \A i \in 1..(Len(out) - 2) :
                  ~(out[i] = "\n" /\ out[i + 1] = "\n" /\ out[i + 2] = "\n")
            /\ \A i \in 1..Len(out) :
                  out[i] \in Whitespace \ {"\n"} => (i < Len(out) /\ out[i + 1] # "\n")

\* the text has no references heading, no two spaces in a row, no three
\* newlines in a row and no white space at the end of a line
Tidy(t) ==
    /\ \A i \in 1..Len(t) : ~RefPatternAt(t, i)
    /\ \A i \in 1..(Len(t) - 1) : ~(t[i] = " " /\ t[i + 1] = " ")
    /\ \A i \in 1..(Len(t) - 2) : ~(t[i] = "\n" /\ t[i + 1] = "\n" /\ t[i + 2] = "\n")
    /\ \A i \in 1..Len(t) :
          t[i] \in Whitespace \ {"\n"} => (i < Len(t) /\ t[i + 1] # "\n")

\* no line of the text starts with white space
NoIndent(t) ==
    \A i \in 1..Len(t) : t[i] \in Whitespace \ {"\n"} => (i > 1 /\ t[i - 1] # "\n")

\* C26 as stated: clean_markdown_text returns a tidy text trimmed and
\* otherwise unchanged.
C26_TidyTextUnchanged ==
    (cleaning.pc = "clean_markdown_text" /\ Tidy(cleaning.text))
        => cleaning.out = Strip(cleaning.text)

\* C26 amended: clean_markdown_text returns a tidy text none of whose lines
\* starts with white space trimmed and otherwise unchanged.
C26_TidyUnindentedTextUnchanged ==
    (cleaning.pc = "clean_markdown_text" /\ Tidy(cleaning.text) /\ NoIndent(cleaning.text))
        => cleaning.out = Strip(cleaning.text)

\* a tidy text of two paragraphs went through clean_markdown_text, which
\* trimmed it
C26_Witness ==
    /\ cleaning.pc = "clean_markdown_text"
    /\ Tidy(cleaning.text)
    /\ NoIndent(cleaning.text)
    /\ cleaning.out # cleaning.text
    /\ \E i \in 1..(Len(cleaning.out) - 1) :
          cleaning.out[i] = "\n" /\ cleaning.out[i + 1] = "\n"

\* C27 as stated: the output of _sanitize_text_for_embedding holds only
\* allowlisted characters, and it is not empty when the input holds an
\* allowlisted character.
C27_SafeAndNonEmpty ==
    cleaning.pc = "_sanitize_text_for_embedding" =>
        /\ \A i \in 1..Len(cleaning.out) : is_safe_char(cleaning.out[i])
        /\ (\E i \in 1..Len(cleaning.text) : is_safe_char(cleaning.text[i]))
              => cleaning.out # <<>>

\* C27 amended: the output holds only allowlisted characters, and it is not
\* empty when the text left by the references excision and the NFKC
\* normalization holds an allowlisted character that is not white space.
C27_SafeAndNonEmptyOnContent ==
    cleaning.pc = "_sanitize_text_for_embedding" =>
        LET left == NFKC(_remove_references_section(cleaning.text))
        IN  /\ \A i \in 1..Len(cleaning.out) : is_safe_char(cleaning.out[i])
            /\ (\E i \in 1..Len(left) : is_safe_char(left[i]) /\ left[i] \notin Whitespace)
                  => cleaning.out # <<>>

\* a text with a character outside the allowlist and an allowlisted one that
\* is not white space went through the sanitizer
C27_Witness ==
    /\ cleaning.pc = "_sanitize_text_for_embedding"
    /\ \E i \in 1..Len(cleaning.text) : ~is_safe_char(cleaning.text[i])
    /\ \E i \in 1..Len(cleaning.text) :
          is_safe_char(cleaning.text[i]) /\ cleaning.text[i] \notin Whitespace
    /\ cleaning.out # <<>>

\* C22: a call of _safe_ollama_embed whose embedding request fails with a
\* NaN, status-500 or JSON error returns, for a batch of n texts, n vectors
\* of 1024 zeros and raises nothing; with any other error it raises that
\* error; with no error it raises nothing.
C22_ZeroVectorsOnDegradation ==
    (embed.pc = "serving" /\ embed.out.op = "_safe_ollama_embed") =>
        LET o == embed.out
        IN  IF o.error = Null THEN o.raised = Null
            ELSE IF o.error \in {<<"failed", "NaN">>, <<"status", "500">>,
                                 <<"JSON", "decode">>}
            THEN /\ o.raised = Null
                 /\ o.value.rows = Len(o.texts)
                 /\ o.value.dim = 1024
                 /\ o.value.zero
            ELSE o.raised = o.error

\* a batch of two texts got two zero vectors
C22_Witness ==
    /\ embed.pc = "serving"
    /\ embed.out.op = "_safe_ollama_embed"
    /\ embed.out.error = <<"failed", "NaN">>
    /\ Len(embed.out.texts) = 2
    /\ embed.out.raised = Null
    /\ embed.out.value.rows = 2
    /\ embed.out.value.zero

\* C23 as stated: no document has had the degradation warning logged for it
\* more than once.
C23_OneWarningPerDocument ==
    embed.pc = "serving" => \A d \in DocId : embed.warned[d] <= 1

(***************************************************************************)
(* Properties of concurrent runs and submissions (Spec).                   *)
(***************************************************************************)
\* C31: a step of a pipeline run changes no record but the one of the run's
\* own doc_id: every other row, the id counter and the stored files are as
\* before, whatever the runs of other documents are doing.
C31_RunWritesOwnRecordOnly ==
    [][\A run \in BagToSet(runs) :
          Leaves(run)
              => /\ \A j \in DocId \ {run.doc_id} : docs'[j] = docs[j]
                 /\ UNCHANGED <<nextId, storage, origin>>]_vars

\* runs of two documents are in flight, one has stored its summary, and the
\* record of the other, which is being processed, has none
C31_Witness ==
    \E r1, r2 \in BagToSet(runs) :
       /\ r1.doc_id # r2.doc_id
       /\ r1.pc = "insert"
       /\ docs[r1.doc_id] # NoDoc /\ docs[r1.doc_id].summary # Null
       /\ docs[r2.doc_id] # NoDoc /\ docs[r2.doc_id].summary = Null
       /\ docs[r2.doc_id].status = PROCESSING

\* C34: at any time at most one pipeline run is scheduled or in flight for
\* a document.
C34_OneRunPerDocument ==
    \A d \in DocId :
       BagCardinality([run \in {r \in BagToSet(runs) : r.doc_id = d} |-> runs[run]]) <= 1

\* C35: a run commits at most one terminal status. COMPLETED and FAILED are
\* committed only by a run of the record at its COMPLETED write or in its
\* except clause; that step is the last of the run, whether the write was
\* committed or not; and no run gets from one of the two writes to the
\* other.
C35_OneTerminalWrite ==
    [][/\ \A i \in DocId :
             (docs[i] # NoDoc /\ docs'[i] # NoDoc
                 /\ docs'[i].status # docs[i].status
                 /\ docs'[i].status \in {COMPLETED, FAILED})
                 => \E run \in BagToSet(runs) :
                       /\ run.doc_id = i /\ Leaves(run)
                       /\ run.pc = IF docs'[i].status = COMPLETED THEN "complete"
                                   ELSE "failing"
       /\ \A run \in BagToSet(runs) :
             (Leaves(run) /\ run.pc \in {"complete", "failing"})
                 => runs' = Drop(runs, run)
       /\ \A run \in BagToSet(runs') :
             (Arrives(run) /\ run.pc \in {"complete", "failing"})
                 => \A r \in BagToSet(runs) :
                       Leaves(r) => r.pc \notin {"complete", "failing"}]_vars

\* two runs have ended, each with its one terminal write: a record is
\* COMPLETED with no message, another is FAILED with the message of the
\* validation, and no run is left
C35_Witness ==
    /\ runs = EmptyBag
    /\ \E i, j \in Rows(docs) :
          /\ docs[i].status = COMPLETED
          /\ docs[i].error_message = Null
          /\ docs[j].status = FAILED
          /\ docs[j].error_message = MsgBadHeader

\* record i is in progress on paper only: PENDING or PROCESSING, with no
\* run of it scheduled or in flight and no request that read it as FAILED
Stranded(ds, rs, ups, i) ==
    /\ ds[i] # NoDoc
    /\ ds[i].status \in {PENDING, PROCESSING}
    /\ \A run \in BagToSet(rs) : run.doc_id # i
    /\ \A up \in BagToSet(ups) : up.pc = "retry" => up.existing.id # i

\* C36: a submission that finds its record PENDING or PROCESSING is
\* answered with the record and changes nothing: it resets no record and
\* schedules no run, and no request goes on to the reset after reading a
\* status other than FAILED. So a record that is PENDING or PROCESSING with
\* no run in flight keeps that status and gets no run, whatever is
\* submitted, for as long as it exists.
C36_InProgressNeverRestarted ==
    /\ [](\A up \in BagToSet(uploads) :
             up.pc = "retry" => up.existing.status \notin {PENDING, PROCESSING})
    /\ [][(uploads' = uploads /\ resp'.code = 202
               /\ docs[resp'.id].status \in {PENDING, PROCESSING})
             => UNCHANGED <<docs, runs, nextId, storage>>]_vars
    /\ [][\A i \in DocId :
             Stranded(docs, runs, uploads, i)
                 => \/ docs'[i] = NoDoc
                    \/ /\ Stranded(docs', runs', uploads', i)
                       /\ docs'[i].status = docs[i].status]_vars

\* a record stayed PROCESSING after its run ended, the same content was
\* submitted again, and the answer is that record, still PROCESSING
C36_Witness ==
    /\ runs = EmptyBag
    /\ uploads = EmptyBag
    /\ resp.code = 202
    /\ Stranded(docs, runs, uploads, resp.id)
    /\ docs[resp.id].status = PROCESSING

\* C37: the indexing engine is called by a run that is at its insert
\* position and leaves it with that call, for the COMPLETED write or the
\* except clause, so at most once in a run. A run gets to that position
\* only through these steps, in this order: validation of a stored file
\* that has the PDF magic, an extraction that returned text the length
\* gate lets through, a metadata read that found the record, and the
\* summary steps. A metadata read that finds no record ends the run with
\* no call and no write, unless the read itself raised, which sends the
\* run to its except clause.
C37_InsertOnceAfterChecks ==
    [][/\ io'.op = "insert_document"
             => \E run \in BagToSet(runs), after \in BagToSet(runs') :
                   /\ run.pc = "insert"
                   /\ after.pc \in {"complete", "failing"}
                   /\ after.doc_id = run.doc_id
                   /\ runs' = Move(runs, run, after)
       /\ \A run \in BagToSet(runs') :
             Arrives(run) =>
                 /\ run.pc = "extracting" =>
                       \E r \in BagToSet(runs) :
                          /\ r.pc = "validate" /\ runs' = Move(runs, r, run)
                          /\ storage[r.filepath] # NoFile
                          /\ storage[r.filepath].head = PdfMagic
                 /\ run.pc = "meta" =>
                       /\ \E r \in BagToSet(runs) :
                             r.pc = "extracting" /\ runs' = Move(runs, r, run)
                       /\ io'.op = "parse_pdf" /\ ~io'.raised
                       /\ io'.text # 0 /\ io'.text >= MinTextLength
                 /\ run.pc = "select" =>
                       \E r \in BagToSet(runs) :
                          r.pc = "meta" /\ runs' = Move(runs, r, run)
                 /\ run.pc = "summarize" =>
                       \E r \in BagToSet(runs) :
                          /\ r.pc = "select" /\ runs' = Move(runs, r, run)
                          /\ docs[r.doc_id] # NoDoc
                 /\ run.pc = "savesummary" =>
                       \E r \in BagToSet(runs) :
                          r.pc = "summarize" /\ runs' = Move(runs, r, run)
                 /\ run.pc = "insert" =>
                       \E r \in BagToSet(runs) :
                          /\ r.pc \in {"summarize", "savesummary"}
                          /\ runs' = Move(runs, r, run)
       /\ \A run \in BagToSet(runs) :
             (run.pc = "select" /\ Leaves(run) /\ docs[run.doc_id] = NoDoc)
                 => /\ \/ runs' = Drop(runs, run)
                       \/ runs' = Move(runs, run, ExitSession(Raise(run, MsgStore)))
                    /\ io' = NoIO
                    /\ UNCHANGED <<docs, storage, parsed>>]_vars

\* the indexing engine has just accepted the text of a run whose record
\* exists and whose parsed text was saved; the run is at its COMPLETED write
C37_Witness ==
    /\ io.op = "insert_document"
    /\ ~io.raised
    /\ ~io.failed_doc
    /\ \E run \in BagToSet(runs) :
          /\ run.pc = "complete"
          /\ run.doc_id \in parsed
          /\ docs[run.doc_id] # NoDoc

\* C38: a record is created only by a request that has written its bytes
\* to the path derived from their fingerprint; the step that commits the
\* record writes no file, gives the record that path and schedules the run
\* of the record with it. So, as long as no document has been deleted, the
\* path of every request past its write, of every record and of every run
\* holds the bytes whose fingerprint names it.
C38_BytesBeforeRecord ==
    /\ [][\A i \in DocId :
             (docs[i] = NoDoc /\ docs'[i] # NoDoc)
                 => \E up \in BagToSet(uploads) :
                       /\ up.pc = "written"
                       /\ uploads' = Drop(uploads, up)
                       /\ docs'[i].filepath = StoragePath(up.sha256)
                       /\ docs'[i].sha256 = _calculate_sha256(up.content)
                       /\ docs'[i].status = PENDING
                       /\ storage' = storage
                       /\ runs' = Put(runs, ScheduledRun(i, docs'[i].filepath))]_vars
    /\ [](adminOps = 0 =>
             /\ \A up \in BagToSet(uploads) :
                   up.pc = "written" => storage[StoragePath(up.sha256)] = up.content
             /\ \A i \in Rows(docs) :
                   /\ storage[docs[i].filepath] # NoFile
                   /\ _calculate_sha256(storage[docs[i].filepath]) = docs[i].sha256
             /\ \A run \in BagToSet(runs) : storage[run.filepath] # NoFile)

\* a record has just been created for new content: it is the newest one,
\* its run is scheduled and has not started, and its path holds the bytes
C38_Witness ==
    /\ resp.code = 202
    /\ nextId = resp.id + 1
    /\ adminOps = 0
    /\ docs[resp.id] # NoDoc
    /\ docs[resp.id].status = PENDING
    /\ storage[docs[resp.id].filepath] = pdfBytes
    /\ runs = SetToBag({ScheduledRun(resp.id, docs[resp.id].filepath)})

(***************************************************************************)
(* Properties of the retry delay and of the poll loop (ParseSpec).         *)
(***************************************************************************)
\* C33: attempt k+1 begins only at the end of a wait of k * retry_delay
\* seconds that follows the failure of attempt k; so the last wait of a call
\* in attempt k > 1 was (k-1) * retry_delay, a call in its first attempt
\* has not waited, and a call that failed in its last permitted attempt
\* ends without a further wait.
C33_LinearBackoff ==
    /\ [](InCall =>
             call.waited = IF call.attempt <= 1 THEN 0
                           ELSE (call.attempt - 1) * retry_delay)
    /\ [][(call.attempt >= 1 /\ call'.attempt # call.attempt)
             => /\ call.pc = "backoff"
                /\ call'.attempt = call.attempt + 1
                /\ call'.pc = "apply"
                /\ call'.waited = call.attempt * retry_delay]_vars
    /\ [][(call.attempt = max_retries /\ call'.last_error # call.last_error)
             => call'.pc = "raised" /\ call'.waited = call.waited]_vars

\* the last permitted attempt begins after a timeout in the second one and
\* a wait of twice the retry delay
C33_Witness ==
    /\ call.pc = "apply"
    /\ call.attempt = max_retries
    /\ call.last_error = TimeoutException
    /\ call.waited = 2 * retry_delay

\* the status query was answered with a success response: HTTP 200, a
\* JSON body and code 0
Answered == io'.error = NoError /\ io'.status_code = 200 /\ io'.code = 0

\* a response came and it is not a success response
NonSuccess == io'.status_code # 0 /\ ~Answered

\* how a pass through the loop body ends: with the wait, with the return of
\* the result URL, or with an exception that leaves _poll_task_result
LoopWaits ==
    /\ call'.pc = "pollsleep"
    /\ call'.attempt = call.attempt
    /\ call'.last_error = call.last_error
LoopReturns == call'.pc = "download" /\ call'.attempt = call.attempt
LoopRaises == call'.pc \notin {"pollsleep", "download"}

\* the waiting job states, an unknown state and an empty result list
StillRunning == NonTerminalStates \cup {"mystery", ""}

\* C32 as stated: a success response with a non-terminal or unknown state
\* or with no result makes the loop wait; the loop returns exactly on
\* `done` with a result URL; it ends with an error exactly on `failed`, on
\* `done` without a result URL, on a non-success response and on the
\* timeout; a wait lasts one poll interval and leads back to the head of
\* the loop, which queries again unless the time is up.
C32_PollBranches ==
    /\ [][call.pc = "query" =>
             /\ io'.op = "poll"
             /\ (Answered /\ io'.state \in StillRunning) => LoopWaits
             /\ LoopReturns <=> (Answered /\ io'.state = "done" /\ io'.full_zip_url)
             /\ LoopRaises <=> \/ Answered /\ io'.state = "failed"
                               \/ Answered /\ io'.state = "done" /\ ~io'.full_zip_url
                               \/ NonSuccess]_vars
    /\ [][call.pc = "pollsleep" =>
             call' = [call EXCEPT !.pc = "poll", !.elapsed = @ + poll_interval]]_vars
    /\ [][call.pc = "poll" =>
             IF call.elapsed > max_poll_time
             THEN LoopRaises /\ ErrTag(call'.last_error) = "polltimeout"
             ELSE call' = [call EXCEPT !.pc = "query"]]_vars

\* C32 amended: as above, and the loop also ends with an error when the
\* status request itself raises, so that no response is received.
C32_PollBranchesOrRequestFails ==
    /\ [][call.pc = "query" =>
             /\ io'.op = "poll"
             /\ (Answered /\ io'.state \in StillRunning) => LoopWaits
             /\ LoopReturns <=> (Answered /\ io'.state = "done" /\ io'.full_zip_url)
             /\ LoopRaises <=> \/ Answered /\ io'.state = "failed"
                               \/ Answered /\ io'.state = "done" /\ ~io'.full_zip_url
                               \/ NonSuccess
                               \/ io'.status_code = 0 /\ io'.error \in TransportErrors]_vars
    /\ [][call.pc = "pollsleep" =>
             call' = [call EXCEPT !.pc = "poll", !.elapsed = @ + poll_interval]]_vars
    /\ [][call.pc = "poll" =>
             IF call.elapsed > max_poll_time
             THEN LoopRaises /\ ErrTag(call'.last_error) = "polltimeout"
             ELSE call' = [call EXCEPT !.pc = "query"]]_vars

\* the service reported a state the client does not know, and the loop is
\* waiting for its next query
C32_Witness ==
    /\ call.pc = "pollsleep"
    /\ io.op = "poll"
    /\ io.state = "mystery"

====
